---------------------------- MODULE Spec2Model ----------------------------
(***************************************************************************)
(* The telemetry lambdas of lautip/lambdas as state machines:              *)
(*   - the exporter  (lambda_timestream_dump_to_s3_json.py),               *)
(*   - the importer  (lambda_timestream_load_from_dump_to_s3_json.py),     *)
(*   - the SQS-to-S3 handlers (lambda_dump_SQS_to_S3.py and                *)
(*     lambda_write_to_S3_from_SQS.py).                                    *)
(* Python strings are TLA+ strings, lists are sequences, dictionaries are  *)
(* records.  A handler is a sequence of steps; its position is a pc.       *)
(***************************************************************************)
EXTENDS Integers, Sequences, FiniteSets, TLC

VARIABLES
    \* ---- the exporter ----
    BLOCKSIZE,      \* module global read from the environment at load time
    ex_len,         \* len(event.get('Records', [{}]))
    ex_event,       \* the records of the event the for loop has taken so far
    ex_pc,          \* "record" | "pages" | "returned" | "raised"
    OBJ_PFX, pg_nb, pg_count, file_nb, rows, columns,   \* locals of the handler
    ex_pages,       \* history: the pages the paginator yielded in the current run
    ex_saved,       \* history: the save_to_s3 calls of the current run
    ex_runs,        \* history: number of records whose dump finished
    ex_fetched,     \* history: pages fetched in the whole invocation
    \* ---- the importer ----
    im_len,         \* len(event.get('Records', [{}]))
    im_event,       \* the records of the event the for loop has taken so far
    im_pc,          \* "start" | "record" | "rows" | "returned" | "raised"
    obj,            \* the dump document read from S3
    ridx,           \* rows of obj["Rows"] the row loop has taken
    records, rows_count,    \* locals of the handler
    im_refs,        \* history: how each record taken ended, the total it printed, the rows it took
    tsw_calls,      \* history: the write_records calls: record index, Records, outcome
    im_read,        \* history: rows read in the whole invocation
    table_exists,   \* whether the destination table exists (tsw.describe_table)
    \* ---- one call of the row reshaping of the importer ----
    rs_pc,          \* "idle" | "call" | "done"
    rs_row,         \* the row
    rs_columns,     \* obj["ColumnInfo"]
    rs_out,         \* the record built, or that building it raised
    \* ---- the SQS-to-S3 handlers (lambda_dump_SQS_to_S3.py,
    \*      lambda_write_to_S3_from_SQS.py) ----
    sq_handler,     \* "dump" | "write": which of the two handlers runs
    inspect,        \* the INSPECT setting
    sq_ids,         \* the messageId of every record of event['Records']
    sq_bodies,      \* the bodies of the records processed so far
    sq_pc,          \* "idle" | "start" | "loop" | "returned" | "raised"
    message_ids,    \* the message_ids list
    sq_stored,      \* for every record processed, whether put_object succeeded
    sq_r,           \* r["batchItemFailures"], as the list of its itemIdentifier
    \* ---- the day-filter producer (lambda_write_date_filters_to_SQS.py) ----
    START_DAY, END_DAY,   \* module globals read from the environment
    pr_pc,          \* "idle" | "start" | "loop" | "done" | "raised"
    current,        \* the local `current`, a date
    pr_sent,        \* the MessageBody of every message sent, in order
    \* ---- the fan-out handler
    \*      (lambda_publish_timestream_dump_files_list_to_SQS.py) ----
    fo_objects,     \* the keys of the objects of BUCKET, in listing order
    fo_pc,          \* "idle" | "start" | "loop" | "returned" | "raised"
    Contents,       \* response['Contents'] of list_objects
    fo_i,           \* how many entries of Contents the for loop has taken
    fo_sent,        \* the MessageAttributes of every message sent, in order
    \* ---- the IoT-to-SNS handler (lambda_send_iot_payload_to_sns.py) ----
    iot_received,   \* history: the event as the handler received it
    event,          \* the event object, which adjust_payload changes in place
    iot_pc,         \* "idle" | "start" | "publish" | "except" | "returned" | "raised"
    iot_e,          \* str(e) of the exception caught
    iot_published,  \* history: the sns.publish calls that succeeded, each with
                    \* its Message and the number of its invocation
    iot_dead,       \* history: the s3.put_object calls that succeeded, each with
                    \* its Key, its Body and the number of its invocation
    iot_runs,       \* history: number of invocations begun
    \* ---- a second invocation of the exporter, running beside the first ----
    ex_other,       \* the locals of the invocation that is not at its turn
    ex_id,          \* 1 | 2: the invocation whose locals the exporter variables hold
    ex_switches,    \* history: how often the turn has changed
    \* ---- shared services ----
    s3,             \* the bucket: a function from object keys to bodies
    now             \* the UTC clock, in seconds

ex_vars == <<BLOCKSIZE, ex_len, ex_event, ex_pc, OBJ_PFX, pg_nb, pg_count, file_nb,
             rows, columns, ex_pages, ex_saved, ex_runs, ex_fetched>>
im_vars == <<im_len, im_event, im_pc, obj, ridx, records, rows_count, im_refs,
             tsw_calls, im_read>>
rs_vars == <<rs_pc, rs_row, rs_columns, rs_out>>
sq_vars == <<sq_handler, inspect, sq_ids, sq_bodies, sq_pc, message_ids, sq_stored, sq_r>>
env_vars == <<s3, now>>
pr_vars == <<START_DAY, END_DAY, pr_pc, current, pr_sent>>
fo_vars == <<fo_objects, fo_pc, Contents, fo_i, fo_sent>>
iot_vars == <<iot_received, event, iot_pc, iot_e, iot_published, iot_dead, iot_runs>>
par_vars == <<ex_other, ex_id, ex_switches>>
vars == <<ex_vars, im_vars, table_exists, rs_vars, sq_vars, pr_vars, fo_vars, iot_vars,
          par_vars, env_vars>>

\* What the steps of each handler leave alone.
not_ex_vars == <<par_vars, im_vars, table_exists, rs_vars, sq_vars, pr_vars, fo_vars, iot_vars>>
not_im_vars == <<par_vars, ex_vars, table_exists, rs_vars, sq_vars, pr_vars, fo_vars, iot_vars,
                 env_vars>>
not_rs_vars == <<par_vars, ex_vars, im_vars, table_exists, sq_vars, pr_vars, fo_vars, iot_vars,
                 env_vars>>
not_sq_vars == <<par_vars, ex_vars, im_vars, table_exists, rs_vars, pr_vars, fo_vars, iot_vars>>
not_pr_vars == <<par_vars, ex_vars, im_vars, table_exists, rs_vars, sq_vars, fo_vars, iot_vars,
                 env_vars>>
not_fo_vars == <<par_vars, ex_vars, im_vars, table_exists, rs_vars, sq_vars, pr_vars, iot_vars,
                 env_vars>>
not_iot_vars == <<par_vars, ex_vars, im_vars, table_exists, rs_vars, sq_vars, pr_vars, fo_vars, s3>>

---------------------------------------------------------------------------
(* Bounds of the model *)

MaxBlockSize == 2       \* BLOCKSIZE ranges over 1..MaxBlockSize
MaxPages == 3           \* pages the query source yields in one invocation
MaxRowsPerPage == 1     \* rows in one page
MaxRecords == 2         \* records in one event
MaxRows == 201          \* rows the importer reads, the event holding one record
MaxRowsMulti == 3       \* rows the importer reads, the event holding several
MaxColumns == 3         \* columns of the row of one call of the reshaping
MaxBatch == 3           \* records in one batch of the SQS-to-S3 handlers

\* The seconds of the clock: two values tell "the same second" from "a later one".
ClockValues == {0, 1}

---------------------------------------------------------------------------
(* Python helpers *)

\* A missing dictionary key / None.
None == "<None>"

\* No document (obj not bound), and no total printed.
NoDoc == [Rows |-> <<>>, ColumnInfo |-> <<>>]
NoTotal == 0 - 1

Min(a, b) == IF a < b THEN a ELSE b

RECURSIVE Concat(_)
\* [x for s in seqs for x in s]
Concat(seqs) == IF seqs = <<>> THEN <<>> ELSE Head(seqs) \o Concat(Tail(seqs))

\* str.startswith
startswith(s, prefix) ==
    /\ Len(s) >= Len(prefix)
    /\ SubSeq(s, 1, Len(prefix)) = prefix

\* str.endswith
endswith(s, suffix) ==
    /\ Len(s) >= Len(suffix)
    /\ SubSeq(s, Len(s) - Len(suffix) + 1, Len(s)) = suffix

\* All sequences over S of length 0..n.
SeqUpTo(S, n) == UNION {[1..k -> S] : k \in 0..n}

---------------------------------------------------------------------------
(* The data: query pages (Timestream query results) *)

\* One cell of a row: {"ScalarValue": v} or {"NullValue": True}.
ScalarCell(v) == [k |-> "ScalarValue", v |-> v]
NullCell == [k |-> "NullValue", v |-> "True"]

Column(name, tpe) == [Name |-> name, Type |-> [ScalarType |-> tpe]]

\* The column layout of a Timestream table: dimensions, measure_value::*,
\* measure_name, time.
TableColumns ==
    << Column("region", "VARCHAR"),
       Column("measure_value::double", "DOUBLE"),
       Column("measure_name", "VARCHAR"),
       Column("time", "TIMESTAMP") >>

\* A second layout (another dimension name), to tell the ColumnInfo of one
\* page from that of another.
OtherColumns ==
    << Column("host", "VARCHAR"),
       Column("measure_value::double", "DOUBLE"),
       Column("measure_name", "VARCHAR"),
       Column("time", "TIMESTAMP") >>

ColumnInfos == {TableColumns, OtherColumns}

Row(dim, value, name, time) ==
    [Data |-> << ScalarCell(dim), ScalarCell(value), ScalarCell(name), ScalarCell(time) >>]

\* '{:0>2}'.format(n)
Pad2(n) == IF n < 10 THEN "0" \o ToString(n) ELSE ToString(n)

\* The n-th row of the queried table in the order of the query (ORDER BY time
\* ASC): all rows differ, in their dimension, their value and their time.
SourceRow(n) ==
    Row("r" \o ToString(n), ToString(n) \o ".5", "cpu",
        "1970-01-01 00:00:" \o Pad2(n) \o ".250000000")

\* The rows of a table that follow its first `seen` rows, cut to one page.
PageRows(seen, n) == [j \in 1..n |-> SourceRow(seen + j)]

\* The pages a query may return next, `seen` rows having been returned; a
\* page may hold no row at all.
Pages(cis, seen) ==
    {[ColumnInfo |-> ci, Rows |-> PageRows(seen, n)] : ci \in cis, n \in 0..MaxRowsPerPage}

\* Number of rows of a sequence of pages.
RowsIn(pages) == Len(Concat([i \in 1..Len(pages) |-> pages[i].Rows]))

---------------------------------------------------------------------------
(* The exporter: lambda_timestream_dump_to_s3_json.py *)

Days == {"2022-01-01"}

\* The bodies an SQS record may carry; None stands for a record with no
\* 'body' key.
FilterBody(day) == "{\"filter\": \"" \o day \o "\"}"
ExporterBodies ==
    {None, "not json", "{\"filter\": \"\"}"} \cup {FilterBody(d) : d \in Days}

\* json.loads of a record body: [ok |-> FALSE] when it raises, else the
\* dictionary, of which only the 'filter' key matters.
json_loads_body(body) ==
    IF body = "{}" THEN [ok |-> TRUE, filter |-> None]
    ELSE IF /\ startswith(body, "{\"filter\": \"")
            /\ endswith(body, "\"}")
            /\ Len(body) >= Len(FilterBody(""))
         THEN [ok |-> TRUE,
               filter |-> SubSeq(body, Len("{\"filter\": \"") + 1, Len(body) - Len("\"}"))]
         ELSE [ok |-> FALSE, filter |-> None]

\* record.get('body', '{}')
BodyOf(record) == IF record.body = None THEN "{}" ELSE record.body

\* dt.utcnow().strftime("%Y-%m-%dT%H-%M-%S"), for a clock within one minute.
strftime(t) == "2022-02-01T00-00-0" \o ToString(t)

\* 'timestream.{}.{}.{}.{}.dump'.format(DB, TB, filter, <time>)
ObjPfx(filter, t) == "timestream.db.tb." \o filter \o "." \o strftime(t) \o ".dump"

\* line 105-108: QRY, for a filter that passed the test of line 100
QRY(filter) ==
    "SELECT * FROM \"db\".\"tb\""
    \o (IF filter # None /\ filter # ""
        THEN " WHERE date_trunc('day', time) = '" \o filter \o "'" ELSE "")
    \o " ORDER BY time ASC"

RECURSIVE Zeros(_)
Zeros(n) == IF n <= 0 THEN "" ELSE "0" \o Zeros(n - 1)

\* '{:0>8}'.format(n)
Pad8(n) == Zeros(8 - Len(ToString(n))) \o ToString(n)

\* Mutant: the number is not padded.
ObjName_Unpadded(pfx, nb) == pfx \o "." \o ToString(nb) \o ".json"

\* save_to_s3: the key of the object
ObjName(pfx, nb) == pfx \o "." \o Pad8(nb) \o ".json"

---------------------------------------------------------------------------
(* JSON: a text is modelled by its token stream, separators left out:       *)
(* "{" "}" "[" "]", the literal true, and quoted strings.                   *)

Quote(str) == "\"" \o str \o "\""
IsQuoted(tok) == Len(tok) >= 2 /\ SubSeq(tok, 1, 1) = "\"" /\ SubSeq(tok, Len(tok), Len(tok)) = "\""
Unquote(tok) == SubSeq(tok, 2, Len(tok) - 1)

\* Mutant: every cell is written as a null.
DumpCell_Null(cell) == << "{", Quote("NullValue"), "true", "}" >>

DumpCell(cell) ==
    << "{", Quote(cell.k), IF cell.k = "NullValue" THEN "true" ELSE Quote(cell.v), "}" >>

DumpRow(row) ==
    << "{", Quote("Data"), "[" >>
    \o Concat([i \in 1..Len(row.Data) |-> DumpCell(row.Data[i])])
    \o << "]", "}" >>

DumpColumn(col) ==
    << "{", Quote("Name"), Quote(col.Name), Quote("Type"), "{" >>
    \o (IF col.Type.ScalarType = None THEN <<>>
        ELSE << Quote("ScalarType"), Quote(col.Type.ScalarType) >>)
    \o << "}", "}" >>

\* json.dumps({"Rows": rows, "ColumnInfo": columns})
json_dumps(payload) ==
    << "{", Quote("Rows"), "[" >>
    \o Concat([i \in 1..Len(payload.Rows) |-> DumpRow(payload.Rows[i])])
    \o << "]", Quote("ColumnInfo"), "[" >>
    \o Concat([i \in 1..Len(payload.ColumnInfo) |-> DumpColumn(payload.ColumnInfo[i])])
    \o << "]", "}" >>

Tok(toks, i) == IF i \in 1..Len(toks) THEN toks[i] ELSE "<eof>"

\* A parse result: the value read and the index of the next token, or a failure.
ParseFail == [ok |-> FALSE, v |-> <<>>, n |-> 0]
Parsed(v, n) == [ok |-> TRUE, v |-> v, n |-> n]

\* { "<kind>": <value> }
ParseCell(toks, i) ==
    IF /\ Tok(toks, i) = "{"
       /\ IsQuoted(Tok(toks, i + 1))
       /\ IsQuoted(Tok(toks, i + 2)) \/ Tok(toks, i + 2) = "true"
       /\ Tok(toks, i + 3) = "}"
    THEN Parsed([k |-> Unquote(toks[i + 1]),
                 v |-> IF toks[i + 2] = "true" THEN "True" ELSE Unquote(toks[i + 2])],
                i + 4)
    ELSE ParseFail

RECURSIVE ParseCells(_, _, _)
\* the items of a list of cells, up to and with its "]"
ParseCells(toks, i, acc) ==
    IF Tok(toks, i) = "]" THEN Parsed(acc, i + 1)
    ELSE LET c == ParseCell(toks, i)
         IN IF c.ok THEN ParseCells(toks, c.n, Append(acc, c.v)) ELSE ParseFail

\* { "Data": [ cells ] }
ParseRow(toks, i) ==
    IF Tok(toks, i) = "{" /\ Tok(toks, i + 1) = Quote("Data") /\ Tok(toks, i + 2) = "["
    THEN LET cs == ParseCells(toks, i + 3, <<>>)
         IN IF cs.ok /\ Tok(toks, cs.n) = "}"
            THEN Parsed([Data |-> cs.v], cs.n + 1)
            ELSE ParseFail
    ELSE ParseFail

RECURSIVE ParseRows(_, _, _)
ParseRows(toks, i, acc) ==
    IF Tok(toks, i) = "]" THEN Parsed(acc, i + 1)
    ELSE LET r == ParseRow(toks, i)
         IN IF r.ok THEN ParseRows(toks, r.n, Append(acc, r.v)) ELSE ParseFail

\* { "Name": n, "Type": { ["ScalarType": t] } }
ParseColumn(toks, i) ==
    IF /\ Tok(toks, i) = "{" /\ Tok(toks, i + 1) = Quote("Name")
       /\ IsQuoted(Tok(toks, i + 2))
       /\ Tok(toks, i + 3) = Quote("Type") /\ Tok(toks, i + 4) = "{"
    THEN IF Tok(toks, i + 5) = "}" /\ Tok(toks, i + 6) = "}"
         THEN Parsed([Name |-> Unquote(toks[i + 2]), Type |-> [ScalarType |-> None]], i + 7)
         ELSE IF /\ Tok(toks, i + 5) = Quote("ScalarType")
                 /\ IsQuoted(Tok(toks, i + 6))
                 /\ Tok(toks, i + 7) = "}" /\ Tok(toks, i + 8) = "}"
              THEN Parsed([Name |-> Unquote(toks[i + 2]),
                           Type |-> [ScalarType |-> Unquote(toks[i + 6])]], i + 9)
              ELSE ParseFail
    ELSE ParseFail

RECURSIVE ParseColumns(_, _, _)
ParseColumns(toks, i, acc) ==
    IF Tok(toks, i) = "]" THEN Parsed(acc, i + 1)
    ELSE LET c == ParseColumn(toks, i)
         IN IF c.ok THEN ParseColumns(toks, c.n, Append(acc, c.v)) ELSE ParseFail

\* json.loads of the body of a dump document: [ok |-> FALSE] when it raises.
json_loads(toks) ==
    IF Tok(toks, 1) = "{" /\ Tok(toks, 2) = Quote("Rows") /\ Tok(toks, 3) = "["
    THEN LET rs == ParseRows(toks, 4, <<>>)
         IN IF rs.ok /\ Tok(toks, rs.n) = Quote("ColumnInfo") /\ Tok(toks, rs.n + 1) = "["
            THEN LET cs == ParseColumns(toks, rs.n + 2, <<>>)
                 IN IF cs.ok /\ Tok(toks, cs.n) = "}" /\ cs.n = Len(toks)
                    THEN [ok |-> TRUE, v |-> [Rows |-> rs.v, ColumnInfo |-> cs.v]]
                    ELSE [ok |-> FALSE, v |-> <<>>]
            ELSE [ok |-> FALSE, v |-> <<>>]
    ELSE [ok |-> FALSE, v |-> <<>>]

---------------------------------------------------------------------------

\* s3.put_object: the bucket after the call
put_object(bucket, key, body) ==
    [k \in DOMAIN bucket \cup {key} |-> IF k = key THEN body ELSE bucket[k]]

\* save_to_s3(pfx, file_nb, payload): the bucket after the call
save_to_s3(pfx, nb, payload) == put_object(s3, ObjName(pfx, nb), json_dumps(payload))

\* The payload the handler hands to save_to_s3.
Payload(rs, cols) == [Rows |-> rs, ColumnInfo |-> cols]

\* line 97-111: the for loop takes the next record of the event: body parsing, the filter
\* check, the key prefix and the counters.
ExporterRecordStep(record) ==
    /\ UNCHANGED not_ex_vars
    /\ ex_pc = "record"
    /\ Len(ex_event) < ex_len
    /\ ex_event' = Append(ex_event, record)
    /\ LET body == json_loads_body(BodyOf(record))
           filter == body.filter
       IN IF ~body.ok \/ filter = None \/ filter = ""
          THEN \* json.loads raises, or RuntimeError("event not correctly formatted")
               /\ ex_pc' = "raised"
               /\ UNCHANGED <<OBJ_PFX, pg_nb, pg_count, file_nb, rows, ex_pages, ex_saved, now>>
          ELSE /\ \E t \in {c \in ClockValues : c >= now} :
                    /\ now' = t
                    /\ OBJ_PFX' = ObjPfx(filter, t)
               /\ pg_nb' = 0
               /\ pg_count' = 0
               /\ file_nb' = 0
               /\ rows' = <<>>
               /\ ex_pages' = <<>>
               /\ ex_saved' = <<>>
               /\ ex_pc' = "pages"
    /\ UNCHANGED <<BLOCKSIZE, ex_len, columns, ex_runs, ex_fetched, s3>>

\* Mutants of the loop body: the ColumnInfo is stored at every page; the
\* rows of the page replace the buffer.
ColumnsAfter_EveryPage(page) == page.ColumnInfo
RowsAfter_Replace(page) == page.Rows

\* The state of the loop body after line 124 of one iteration.
ColumnsAfter(page) == IF pg_count + 1 = 1 THEN page.ColumnInfo ELSE columns
RowsAfter(page) == rows \o page.Rows

\* Mutant: the exception of a failed call is swallowed and the loop goes on.
Uncaught_Swallowed(pc) == pc

\* The handler has no try: an exception raised at position pc leaves it.
Uncaught(pc) == "raised"

\* line 116-131: one iteration of the page loop; put_ok tells whether
\* s3.put_object of a flush succeeds.
ExporterPageStep(page, put_ok) ==
    /\ UNCHANGED not_ex_vars
    /\ ex_pc = "pages"
    /\ ex_fetched < MaxPages
    /\ ex_fetched' = ex_fetched + 1
    /\ pg_nb' = pg_nb + 1
    /\ columns' = ColumnsAfter(page)
    /\ ex_pages' = Append(ex_pages, page)
    /\ UNCHANGED <<BLOCKSIZE, ex_len, ex_event, OBJ_PFX, ex_runs, now>>
    /\ IF pg_count + 1 >= BLOCKSIZE
       THEN /\ pg_count' = 0
            /\ file_nb' = file_nb + 1
            /\ IF put_ok
               THEN /\ s3' = save_to_s3(OBJ_PFX, file_nb', Payload(RowsAfter(page), columns'))
                    /\ ex_saved' = Append(ex_saved,
                            [Key |-> ObjName(OBJ_PFX, file_nb'),
                             Payload |-> Payload(RowsAfter(page), columns'),
                             Pages |-> pg_count + 1])
                    /\ rows' = <<>>
                    /\ ex_pc' = "pages"
               ELSE /\ rows' = RowsAfter(page)
                    /\ ex_pc' = Uncaught("pages")
                    /\ UNCHANGED <<s3, ex_saved>>
       ELSE /\ put_ok
            /\ pg_count' = pg_count + 1
            /\ rows' = RowsAfter(page)
            /\ UNCHANGED <<file_nb, s3, ex_saved, ex_pc>>

\* The paginator raises while fetching the next page.
ExporterPageFails ==
    /\ UNCHANGED not_ex_vars
    /\ ex_pc = "pages"
    /\ ex_fetched < MaxPages
    /\ ex_pc' = Uncaught("pages")
    /\ UNCHANGED <<BLOCKSIZE, ex_len, ex_event, OBJ_PFX, pg_nb, pg_count, file_nb, rows,
                   columns, ex_pages, ex_saved, ex_runs, ex_fetched, s3, now>>

\* line 133-136: the paginator is exhausted; the last short chunk is flushed
\* when it holds rows, and the loop goes to the next record.
ExporterExhausted(put_ok) ==
    /\ UNCHANGED not_ex_vars
    /\ ex_pc = "pages"
    /\ IF rows # <<>>
       THEN /\ file_nb' = file_nb + 1
            /\ IF put_ok
               THEN /\ s3' = save_to_s3(OBJ_PFX, file_nb', Payload(rows, columns))
                    /\ ex_saved' = Append(ex_saved,
                            [Key |-> ObjName(OBJ_PFX, file_nb'),
                             Payload |-> Payload(rows, columns),
                             Pages |-> pg_count])
                    /\ ex_pc' = "record"
                    /\ ex_runs' = ex_runs + 1
               ELSE /\ ex_pc' = Uncaught("pages")
                    /\ UNCHANGED <<s3, ex_saved, ex_runs>>
       ELSE /\ put_ok
            /\ ex_pc' = "record"
            /\ ex_runs' = ex_runs + 1
            /\ UNCHANGED <<file_nb, s3, ex_saved>>
    /\ UNCHANGED <<BLOCKSIZE, ex_len, ex_event, OBJ_PFX, pg_nb, pg_count, rows, columns,
                   ex_pages, ex_fetched, now>>

\* line 138: the records are exhausted: return {}
ExporterReturn ==
    /\ UNCHANGED not_ex_vars
    /\ ex_pc = "record"
    /\ Len(ex_event) = ex_len
    /\ ex_pc' = "returned"
    /\ UNCHANGED <<BLOCKSIZE, ex_len, ex_event, OBJ_PFX, pg_nb, pg_count, file_nb, rows,
                   columns, ex_pages, ex_saved, ex_runs, ex_fetched, s3, now>>

ExporterPage ==
    \E page \in Pages(ColumnInfos, RowsIn(ex_pages)) : ExporterPageStep(page, TRUE)
ExporterPageStoreFails ==
    \E page \in Pages(ColumnInfos, RowsIn(ex_pages)) : ExporterPageStep(page, FALSE)
ExporterEnd == ExporterExhausted(TRUE)
ExporterEndStoreFails == ExporterExhausted(FALSE)

\* The records of an event of the exporter.
ExporterRecords == {[body |-> b] : b \in ExporterBodies}

ExporterRecord == \E record \in ExporterRecords : ExporterRecordStep(record)

\* The handler is not running.
ImporterIdle ==
    /\ im_len = 0
    /\ im_event = <<>>
    /\ im_pc = "idle"
    /\ obj = NoDoc
    /\ ridx = 0
    /\ records = <<>>
    /\ rows_count = 0
    /\ im_refs = <<>>
    /\ tsw_calls = <<>>
    /\ im_read = 0

ReshapeIdle ==
    /\ rs_pc = "idle"
    /\ rs_row = [Data |-> <<>>]
    /\ rs_columns = <<>>
    /\ rs_out = [ok |-> FALSE, record |-> <<>>]

SqsIdle ==
    /\ sq_handler = "dump"
    /\ inspect = FALSE
    /\ sq_ids = <<>>
    /\ sq_bodies = <<>>
    /\ sq_pc = "idle"
    /\ message_ids = <<>>
    /\ sq_stored = <<>>
    /\ sq_r = <<>>

NoDate == [year |-> 0, month |-> 0, day |-> 0]

ProducerIdle ==
    /\ START_DAY = "2023-12-30"
    /\ END_DAY = "2023-12-30"
    /\ pr_pc = "idle"
    /\ current = NoDate
    /\ pr_sent = <<>>

\* The handlers that are not part of a specification do not run.
\* No invocation of the fan-out handler.
NoContents == << "<no Contents>" >>
FanoutIdle ==
    /\ fo_objects = <<>>
    /\ fo_pc = "idle"
    /\ Contents = NoContents
    /\ fo_i = 0
    /\ fo_sent = <<>>

\* No invocation of the IoT-to-SNS handler.
NoEvent == [isdict |-> FALSE, items |-> <<>>]
IotIdle ==
    /\ iot_received = NoEvent
    /\ event = NoEvent
    /\ iot_pc = "idle"
    /\ iot_e = None
    /\ iot_published = <<>>
    /\ iot_dead = <<>>
    /\ iot_runs = 0

\* The locals of an exporter invocation that has not begun, its event
\* holding n records.
StartLocals(n) ==
    [ex_len |-> n, ex_event |-> <<>>, ex_pc |-> "record", OBJ_PFX |-> None, pg_nb |-> 0,
     pg_count |-> 0, file_nb |-> 0, rows |-> <<>>, columns |-> None, ex_pages |-> <<>>,
     ex_saved |-> <<>>, ex_runs |-> 0, ex_fetched |-> 0]

\* No second invocation of the exporter.
ParallelIdle ==
    /\ ex_other = StartLocals(0)
    /\ ex_id = 1
    /\ ex_switches = 0

OthersIdle == ProducerIdle /\ FanoutIdle /\ IotIdle /\ ParallelIdle

ExporterStart ==
    /\ BLOCKSIZE \in 1..MaxBlockSize
    /\ ex_len \in 0..MaxRecords
    /\ ex_event = <<>>
    /\ ex_pc = "record"
    /\ OBJ_PFX = None
    /\ pg_nb = 0
    /\ pg_count = 0
    /\ file_nb = 0
    /\ rows = <<>>
    /\ columns = None
    /\ ex_pages = <<>>
    /\ ex_saved = <<>>
    /\ ex_runs = 0
    /\ ex_fetched = 0
    /\ s3 = <<>>
    /\ now = 0

ExporterInit ==
    ExporterStart /\ ImporterIdle /\ table_exists = TRUE /\ ReshapeIdle /\ SqsIdle /\ OthersIdle

ExporterNext ==
    \/ ExporterRecord
    \/ ExporterPage
    \/ ExporterPageStoreFails
    \/ ExporterPageFails
    \/ ExporterEnd
    \/ ExporterEndStoreFails
    \/ ExporterReturn

SpecExporter == ExporterInit /\ [][ExporterNext]_vars

---------------------------------------------------------------------------
(* Properties of the exporter *)

\* The dump of the last record taken finished (line 136 was reached) and no
\* later record has been taken.
RunComplete == ex_pc \in {"record", "returned"} /\ ex_runs > 0

\* The rows of pages[from..to], in order.
RowsOfPages(pages, from, to) ==
    Concat([i \in 1..(to - from + 1) |-> pages[from + i - 1].Rows])

\* The rows of all documents of the run, in chunk-number order.
SavedRows == Concat([k \in 1..Len(ex_saved) |-> ex_saved[k].Payload.Rows])

Ceil(a, b) == (a + b - 1) \div b

\* Document k holds the rows of the k-th block of BLOCKSIZE consecutive pages.
ChunkRowsExact ==
    \A k \in 1..Len(ex_saved) :
        /\ k * BLOCKSIZE - BLOCKSIZE + 1 <= Len(ex_pages)
        /\ ex_saved[k].Payload.Rows =
               RowsOfPages(ex_pages, k * BLOCKSIZE - BLOCKSIZE + 1,
                           Min(k * BLOCKSIZE, Len(ex_pages)))

\* The pages after the last full block of BLOCKSIZE pages.
TailRows ==
    RowsOfPages(ex_pages, (Len(ex_pages) \div BLOCKSIZE) * BLOCKSIZE + 1, Len(ex_pages))

\* C1 as stated: a finished run over P pages has written exactly ceil(P/B)
\* documents, document k holding the rows of the k-th block of at most B
\* consecutive pages, and the documents' rows in chunk order are the rows of
\* all pages in the order of the source.
C1_ChunkingExactness ==
    RunComplete =>
        /\ Len(ex_saved) = Ceil(Len(ex_pages), BLOCKSIZE)
        /\ ChunkRowsExact
        /\ SavedRows = RowsOfPages(ex_pages, 1, Len(ex_pages))

\* C1 amended: a finished run over P pages has written floor(P/B) documents,
\* and one more exactly when the pages after the last full block hold a row;
\* document k holds the rows of the k-th block of at most B consecutive
\* pages, and the documents' rows in chunk order are the rows of all pages in
\* the order of the source.
C1_ChunkingShortTail ==
    RunComplete =>
        /\ Len(ex_saved) = (Len(ex_pages) \div BLOCKSIZE)
                            + (IF TailRows # <<>> THEN 1 ELSE 0)
        /\ ChunkRowsExact
        /\ SavedRows = RowsOfPages(ex_pages, 1, Len(ex_pages))

\* A finished run with a document written, rows in several pages, and a
\* trailing short block of pages without rows.
C1_Witness ==
    /\ RunComplete
    /\ Len(ex_saved) >= 1
    /\ BLOCKSIZE >= 2
    /\ Len(ex_saved[1].Payload.Rows) >= 2
    /\ Len(ex_pages) % BLOCKSIZE # 0
    /\ TailRows = <<>>

\* C3: every document written so far carries the ColumnInfo of the first page
\* of its own block of pages.
C3_ColumnInfoOfFirstPage ==
    \A k \in 1..Len(ex_saved) :
        /\ k * BLOCKSIZE - BLOCKSIZE + 1 <= Len(ex_pages)
        /\ ex_saved[k].Payload.ColumnInfo =
               ex_pages[k * BLOCKSIZE - BLOCKSIZE + 1].ColumnInfo

\* A finished run with a full chunk and a final short chunk, whose pages
\* all differ from their neighbour in ColumnInfo.
C3_Witness ==
    /\ RunComplete
    /\ BLOCKSIZE = 2
    /\ Len(ex_pages) = 3
    /\ Len(ex_saved) = 2
    /\ ex_pages[1].ColumnInfo # ex_pages[2].ColumnInfo
    /\ ex_pages[2].ColumnInfo # ex_pages[3].ColumnInfo

\* The record cannot be processed: its body is no JSON, or holds no filter.
ExporterMalformed(record) ==
    LET body == json_loads_body(BodyOf(record))
    IN ~body.ok \/ body.filter = None \/ body.filter = ""

\* C6, for the exporter: an error confined to one message never aborts the
\* invocation: the handler does not end by raising on a malformed message,
\* leaving the messages after it unprocessed.
C6_PerMessageErrorNeverAborts ==
    ~ /\ ex_pc = "raised"
      /\ ex_event # <<>>
      /\ ExporterMalformed(ex_event[Len(ex_event)])
      /\ Len(ex_event) < ex_len


---------------------------------------------------------------------------
(* The importer: lambda_timestream_load_from_dump_to_s3_json.py *)

MAX_RECORDS == 100

Digits == <<"0", "1", "2", "3", "4", "5", "6", "7", "8", "9">>
IsDigit(ch) == \E d \in 1..10 : Digits[d] = ch
DigitOf(ch) == (CHOOSE d \in 1..10 : Digits[d] = ch) - 1
AllDigits(str) == \A i \in 1..Len(str) : IsDigit(SubSeq(str, i, i))

RECURSIVE int(_)
\* int(str) of a string of digits
int(str) ==
    IF str = "" THEN 0
    ELSE 10 * int(SubSeq(str, 1, Len(str) - 1)) + DigitOf(SubSeq(str, Len(str), Len(str)))

\* Days of a non-leap year before the first of each month.
DaysBeforeMonth == <<0, 31, 59, 90, 120, 151, 181, 212, 243, 273, 304, 334>>

\* parser.parse(date + 'Z') for the format the docstring names,
\* '%Y-%m-%d %H:%M:%S[.fraction]', and years 1970 and 1971: the fields, the
\* fraction cut to microseconds; [ok |-> FALSE] when the parser raises.
parser_parse(date) ==
    IF /\ Len(date) >= 19
       /\ AllDigits(SubSeq(date, 1, 4)) /\ SubSeq(date, 5, 5) = "-"
       /\ AllDigits(SubSeq(date, 6, 7)) /\ SubSeq(date, 8, 8) = "-"
       /\ AllDigits(SubSeq(date, 9, 10)) /\ SubSeq(date, 11, 11) = " "
       /\ AllDigits(SubSeq(date, 12, 13)) /\ SubSeq(date, 14, 14) = ":"
       /\ AllDigits(SubSeq(date, 15, 16)) /\ SubSeq(date, 17, 17) = ":"
       /\ AllDigits(SubSeq(date, 18, 19))
       /\ Len(date) > 19 => /\ SubSeq(date, 20, 20) = "."
                            /\ Len(date) > 20
                            /\ AllDigits(SubSeq(date, 21, Len(date)))
       /\ int(SubSeq(date, 6, 7)) \in 1..12
       /\ int(SubSeq(date, 9, 10)) \in 1..31
       /\ int(SubSeq(date, 12, 13)) \in 0..23
       /\ int(SubSeq(date, 15, 16)) \in 0..59
       /\ int(SubSeq(date, 18, 19)) \in 0..59
    THEN [ok |-> TRUE,
          days |-> (int(SubSeq(date, 1, 4)) - 1970) * 365
                     + DaysBeforeMonth[int(SubSeq(date, 6, 7))]
                     + int(SubSeq(date, 9, 10)) - 1,
          hour |-> int(SubSeq(date, 12, 13)),
          minute |-> int(SubSeq(date, 15, 16)),
          second |-> int(SubSeq(date, 18, 19)),
          microsecond |->
              IF Len(date) <= 20 THEN 0
              ELSE int(SubSeq(SubSeq(date, 21, Len(date)) \o "000000", 1, 6))]
    ELSE [ok |-> FALSE, days |-> 0, hour |-> 0, minute |-> 0, second |-> 0, microsecond |-> 0]

\* get_timestamp(date): int(1000 * parser.parse(date + 'Z').timestamp()), the
\* epoch milliseconds, what is finer than a millisecond dropped.
get_timestamp(date) ==
    LET t == parser_parse(date)
    IN [ok |-> t.ok,
        ms |-> (((t.days * 24 + t.hour) * 60 + t.minute) * 60 + t.second) * 1000
               + t.microsecond \div 1000]

get_record_template ==
    [Dimensions |-> <<>>, MeasureName |-> "", MeasureValue |-> "",
     MeasureValueType |-> "", Time |-> "", TimeUnit |-> "MILLISECONDS"]

get_dim_template == [Name |-> "", Value |-> "", DimensionValueType |-> ""]

\* The prefix of the measure-value columns.
MeasureValuePrefix == "measure_value"

\* Mutant: only the column named exactly 'measure_value' is the measure.
SetField_ExactMeasure(record, name, tpe, v) ==
    IF name = "time"
    THEN [record EXCEPT !.Time = ToString(get_timestamp(v).ms)]
    ELSE IF name = MeasureValuePrefix
    THEN [record EXCEPT !.MeasureValue = v, !.MeasureValueType = tpe]
    ELSE IF name = "measure_name"
    THEN [record EXCEPT !.MeasureName = v]
    ELSE [record EXCEPT !.Dimensions =
              Append(@, [get_dim_template EXCEPT
                             !.Name = name, !.Value = v, !.DimensionValueType = tpe])]

\* line 163-186: the record after cell `data` of the column (name, tpe), a
\* present scalar.
SetField(record, name, tpe, v) ==
    IF name = "time"
    THEN [record EXCEPT !.Time = ToString(get_timestamp(v).ms)]
    ELSE IF startswith(name, MeasureValuePrefix)
    THEN [record EXCEPT !.MeasureValue = v, !.MeasureValueType = tpe]
    ELSE IF name = "measure_name"
    THEN [record EXCEPT !.MeasureName = v]
    ELSE [record EXCEPT !.Dimensions =
              Append(@, [get_dim_template EXCEPT
                             !.Name = name, !.Value = v, !.DimensionValueType = tpe])]

Raised == [ok |-> FALSE, record |-> get_record_template]

RECURSIVE ReshapeFrom(_, _, _, _)
\* line 159-186: the cell loop from cell idx (1-based) on; [ok |-> FALSE]
\* when an iteration raises.
ReshapeFrom(data, ColumnInfo, idx, record) ==
    IF idx > Len(data) THEN [ok |-> TRUE, record |-> record]
    ELSE IF data[idx].k = None                      \* list(data.items())[0] of {}
         THEN Raised
    ELSE IF idx > Len(ColumnInfo)                   \* obj["ColumnInfo"][idx]
         THEN Raised
    ELSE IF ColumnInfo[idx].Type.ScalarType = None  \* ["Type"]["ScalarType"]
         THEN Raised
    ELSE IF data[idx].k # "ScalarValue"
         THEN ReshapeFrom(data, ColumnInfo, idx + 1, record)
    ELSE IF ColumnInfo[idx].Name = "time" /\ ~get_timestamp(data[idx].v).ok
         THEN Raised
    ELSE ReshapeFrom(data, ColumnInfo, idx + 1,
                     SetField(record, ColumnInfo[idx].Name,
                              ColumnInfo[idx].Type.ScalarType, data[idx].v))

\* Mutant: a record without a measure name is refused.
Reshape_MeasureRequired(row, ColumnInfo) ==
    LET r == ReshapeFrom(row.Data, ColumnInfo, 1, get_record_template)
    IN IF r.ok /\ r.record.MeasureName = "" THEN Raised ELSE r

\* line 158-186: the record of one row.
Reshape(row, ColumnInfo) == ReshapeFrom(row.Data, ColumnInfo, 1, get_record_template)

\* The outcomes of tsw.write_records: a response, a
\* RejectedRecordsException, any other exception.
WriteOutcomes == {"ok", "rejected", "error"}

\* Mutant: write_to_timestream swallows every exception.
WriteRaises_Never(outcome) == FALSE

\* Mutant: a RejectedRecordsException is raised on like any other.
WriteRaises_Rejected(outcome) == outcome \in {"error", "rejected"}

\* write_to_timestream(records) raises RuntimeError.
WriteRaises(outcome) == outcome = "error"

\* The history after tsw.write_records(Records=batch).
Written(batch, outcome) ==
    Append(tsw_calls, [record |-> Len(im_event), Records |-> batch, outcome |-> outcome])

\* How the record taken last ended.
Ended(status, total, taken) ==
    Append(im_refs, [status |-> status, total |-> total, rows |-> taken])

\* Mutant: the check lets a missing table pass.
check_table_exists_Always(exists) == TRUE

\* line 83-88: check_table_exists(DB, TB) returns, and does not raise.
check_table_exists(exists) == exists

\* line 142-143: check_table_exists passes.
ImporterStart ==
    /\ im_pc = "start"
    /\ check_table_exists(table_exists)
    /\ im_pc' = "record"
    /\ UNCHANGED <<im_len, im_event, obj, ridx, records, rows_count, im_refs, tsw_calls,
                   im_read>>
    /\ UNCHANGED not_im_vars

\* line 83-88: describe_table raises, and check_table_exists raises RuntimeError.
ImporterTableMissing ==
    /\ im_pc = "start"
    /\ ~check_table_exists(table_exists)
    /\ im_pc' = "raised"
    /\ UNCHANGED <<im_len, im_event, obj, ridx, records, rows_count, im_refs, tsw_calls,
                   im_read>>
    /\ UNCHANGED not_im_vars

\* record['messageAttributes'][...]['stringValue'] raises, or gives None.
NoReference(record) == record.bucket = None \/ record.key = None

\* line 144-156: the for loop takes the next record of the event; fetched is
\* what get_s3_object returns, [ok |-> FALSE] when it raises.
ImporterRecordStep(record, fetched) ==
    /\ im_pc = "record"
    /\ Len(im_event) < im_len
    /\ im_event' = Append(im_event, record)
    /\ IF NoReference(record)
       THEN \* KeyError or RuntimeError, caught at line 201
            /\ im_refs' = Ended("no reference", NoTotal, 0)
            /\ UNCHANGED <<im_pc, obj, ridx, records, rows_count>>
       ELSE IF ~fetched.ok
       THEN \* RuntimeError of get_s3_object, caught at line 201
            /\ im_refs' = Ended("fetch failed", NoTotal, 0)
            /\ UNCHANGED <<im_pc, obj, ridx, records, rows_count>>
       ELSE /\ obj' = fetched.v
            /\ ridx' = 0
            /\ records' = <<>>
            /\ rows_count' = 0
            /\ im_pc' = "rows"
            /\ UNCHANGED im_refs
    /\ UNCHANGED <<im_len, tsw_calls, im_read>>
    /\ UNCHANGED not_im_vars

\* Mutants of the row loop: the batch is flushed one record late; the batch
\* is not reset after a flush.
FlushDue_Late(batch) == Len(batch) > MAX_RECORDS
AfterFlush_Kept(batch) == batch

\* line 190: len(records) == MAX_RECORDS
FlushDue(batch) == Len(batch) = MAX_RECORDS

\* line 195: records = []
AfterFlush(batch) == <<>>

\* line 157-195: one iteration of the row loop on `row`; outcome is that of
\* the write call, when the iteration makes one.
ImporterRowStep(row, outcome) ==
    /\ im_pc = "rows"
    /\ ridx' = ridx + 1
    /\ im_read' = im_read + 1
    /\ LET r == Reshape(row, obj.ColumnInfo)
           batch == Append(records, r.record)
       IN IF ~r.ok
          THEN \* caught at line 201: the rest of the document is dropped
               /\ outcome = "ok"
               /\ im_refs' = Ended("row raised", NoTotal, ridx + 1)
               /\ im_pc' = "record"
               /\ UNCHANGED <<records, rows_count, tsw_calls>>
          ELSE /\ rows_count' = rows_count + 1
               /\ IF FlushDue(batch)
                  THEN /\ tsw_calls' = Written(batch, outcome)
                       /\ IF WriteRaises(outcome)
                          THEN \* RuntimeError, caught at line 201
                               /\ records' = batch
                               /\ im_refs' = Ended("write failed", NoTotal, ridx + 1)
                               /\ im_pc' = "record"
                          ELSE /\ records' = AfterFlush(batch)
                               /\ UNCHANGED <<im_refs, im_pc>>
                  ELSE /\ outcome = "ok"
                       /\ records' = batch
                       /\ UNCHANGED <<tsw_calls, im_refs, im_pc>>
    /\ UNCHANGED <<im_len, im_event>>
    /\ UNCHANGED not_im_vars

\* line 196-200: the rows are exhausted: the last piece is written and the
\* total printed.
ImporterRowsDone(outcome) ==
    /\ im_pc = "rows"
    /\ IF records # <<>>
       THEN /\ tsw_calls' = Written(records, outcome)
            /\ IF WriteRaises(outcome)
               THEN im_refs' = Ended("write failed", NoTotal, ridx)
               ELSE im_refs' = Ended("done", rows_count, ridx)
       ELSE /\ outcome = "ok"
            /\ im_refs' = Ended("done", rows_count, ridx)
            /\ UNCHANGED tsw_calls
    /\ im_pc' = "record"
    /\ UNCHANGED <<im_len, im_event, obj, ridx, records, rows_count, im_read>>
    /\ UNCHANGED not_im_vars

\* The records of the event are exhausted: the handler returns.
ImporterReturn ==
    /\ im_pc = "record"
    /\ Len(im_event) = im_len
    /\ im_pc' = "returned"
    /\ UNCHANGED <<im_len, im_event, obj, ridx, records, rows_count, im_refs, tsw_calls,
                   im_read>>
    /\ UNCHANGED not_im_vars

---------------------------------------------------------------------------
(* The importer on documents read as a stream: the rows of a document are   *)
(* given one by one, which lets long documents share their prefixes.        *)

\* The n-th row of a document, as the exporter wrote it.
ImportRow(n) ==
    Row("r" \o ToString(n), ToString(n) \o ".5", "cpu",
        "1970-01-01 00:0" \o ToString((n \div 60) % 10) \o ":" \o Pad2(n % 60) \o ".250900000")

\* A row whose time cell is no date; a row with a cell that is an empty
\* dictionary.
BadTimeRow(n) == Row("r" \o ToString(n), ToString(n) \o ".5", "cpu", "yesterday")
EmptyCellRow == [Data |-> << [k |-> None, v |-> ""] >>]

\* A table without measure columns, and its n-th row.
DimColumns == << Column("region", "VARCHAR"), Column("time", "TIMESTAMP") >>
DimRow(n) ==
    [Data |-> << ScalarCell("r" \o ToString(n)),
                 ScalarCell("1970-01-01 00:00:" \o Pad2(n % 60) \o ".250900000") >>]

\* A row whose measure cells are null.
NullMeasureRow(n) ==
    [Data |-> << ScalarCell("r" \o ToString(n)), NullCell, NullCell,
                 ScalarCell("1970-01-01 00:00:" \o Pad2(n % 60) \o ".250900000") >>]

\* The rows a document may hold in place n; a row with null measure cells
\* comes among the first rows only.
InputRows(n) ==
    IF obj.ColumnInfo = DimColumns THEN {DimRow(n)}
    ELSE {ImportRow(n), BadTimeRow(n), EmptyCellRow}
         \cup (IF n <= MaxRowsMulti THEN {NullMeasureRow(n)} ELSE {})

\* The records of an event of the importer: a reference, or none.
StreamRecords == {[bucket |-> "bucket", key |-> "dump.json"],
                  [bucket |-> "bucket", key |-> None]}

\* What get_s3_object returns for a streamed document: the document with the
\* rows still to come, or a failure.
StreamFetches == {[ok |-> TRUE, v |-> [Rows |-> <<>>, ColumnInfo |-> TableColumns]],
                  [ok |-> TRUE, v |-> [Rows |-> <<>>, ColumnInfo |-> DimColumns]],
                  [ok |-> FALSE, v |-> NoDoc]}

ImporterRecord ==
    \E record \in StreamRecords, fetched \in StreamFetches :
        ImporterRecordStep(record, fetched)

\* The rows the documents of one event hold in total, at most.
RowBudget == IF im_len <= 1 THEN MaxRows ELSE MaxRowsMulti

\* The document gives its next row.
ImporterRow ==
    /\ im_read < RowBudget
    /\ \E row \in InputRows(ridx + 1), outcome \in WriteOutcomes :
        /\ obj' = [obj EXCEPT !.Rows = Append(@, row)]
        /\ ImporterRowStep(row, outcome)

\* The document has no more rows.
ImporterEnd ==
    \E outcome \in WriteOutcomes : ImporterRowsDone(outcome)

\* The handler is not running.
ExporterIdle ==
    /\ BLOCKSIZE = 1
    /\ ex_len = 0
    /\ ex_event = <<>>
    /\ ex_pc = "idle"
    /\ OBJ_PFX = None
    /\ pg_nb = 0
    /\ pg_count = 0
    /\ file_nb = 0
    /\ rows = <<>>
    /\ columns = None
    /\ ex_pages = <<>>
    /\ ex_saved = <<>>
    /\ ex_runs = 0
    /\ ex_fetched = 0

ImporterBegin ==
    /\ im_len \in 0..MaxRecords
    /\ im_event = <<>>
    /\ im_pc = "start"
    /\ obj = NoDoc
    /\ ridx = 0
    /\ records = <<>>
    /\ rows_count = 0
    /\ im_refs = <<>>
    /\ tsw_calls = <<>>
    /\ im_read = 0
    /\ table_exists \in BOOLEAN

ImporterInit ==
    ImporterBegin /\ ExporterIdle /\ ReshapeIdle /\ SqsIdle /\ OthersIdle /\ s3 = <<>> /\ now = 0

ImporterNext ==
    \/ ImporterStart
    \/ ImporterTableMissing
    \/ ImporterRecord
    \/ ImporterRow
    \/ ImporterEnd
    \/ ImporterReturn

SpecImporter == ImporterInit /\ [][ImporterNext]_vars

---------------------------------------------------------------------------
(* Properties of the importer *)

\* The write calls made for the i-th record of the event.
CallsOf(i) == SelectSeq(tsw_calls, LAMBDA c : c.record = i)

\* The records submitted for the i-th record of the event, in order.
SubmittedFor(i) ==
    LET calls == CallsOf(i)
    IN Concat([k \in 1..Len(calls) |-> calls[k].Records])

\* The record taken last has ended, and no other has been taken since.
LastEnded == im_event # <<>> /\ Len(im_refs) = Len(im_event)

\* The records of the rows of a document that reshape without error.
RECURSIVE GoodRecords(_, _)
GoodRecords(rs, ColumnInfo) ==
    IF rs = <<>> THEN <<>>
    ELSE LET r == Reshape(Head(rs), ColumnInfo)
         IN (IF r.ok THEN <<r.record>> ELSE <<>>) \o GoodRecords(Tail(rs), ColumnInfo)

\* C2: a document of R rows read to its end without a reshaping error or a
\* failed write call took ceil(R/100) write calls, each of 1..100 records,
\* all but the last of exactly 100, the last of the remainder; and the batch
\* in memory never holds more than 100 records.
C2_BatchCeiling ==
    /\ Len(records) <= MAX_RECORDS
    /\ (LastEnded /\ im_refs[Len(im_refs)].status = "done") =>
          LET calls == CallsOf(Len(im_event))
              R == Len(obj.Rows)
          IN /\ Len(calls) = Ceil(R, MAX_RECORDS)
             /\ \A k \in 1..Len(calls) :
                   /\ Len(calls[k].Records) \in 1..MAX_RECORDS
                   /\ k < Len(calls) => Len(calls[k].Records) = MAX_RECORDS
                   /\ k = Len(calls) =>
                         Len(calls[k].Records) = R - MAX_RECORDS * (Len(calls) - 1)

\* A document of more than 200 rows read to its end: two full calls and a rest.
C2_Witness ==
    /\ LastEnded
    /\ im_refs[Len(im_refs)].status = "done"
    /\ Len(obj.Rows) > 2 * MAX_RECORDS
    /\ Len(CallsOf(Len(im_event))) = 3

\* C4: a row whose reshaping raises is the only row left out: once the
\* handler is through with a document it could fetch and whose write calls did
\* not fail, every row of it that reshapes without error has been submitted.
C4_RowErrorIsolated ==
    (LastEnded /\ im_refs[Len(im_refs)].status \in {"done", "row raised"}) =>
        SubmittedFor(Len(im_event)) = GoodRecords(obj.Rows, obj.ColumnInfo)

\* C9: a record with a rejected write call, no failed write call and no
\* reshaping error is processed to the end: every row taken was submitted,
\* and the total printed is the number of rows of the document; the handler
\* does not raise.
C9_RejectionTolerated ==
    /\ (\E k \in 1..Len(tsw_calls) : tsw_calls[k].outcome = "rejected") => im_pc # "raised"
    /\ \A i \in 1..Len(im_refs) :
          (/\ \E k \in 1..Len(tsw_calls) :
                  tsw_calls[k].record = i /\ tsw_calls[k].outcome = "rejected"
           /\ \A k \in 1..Len(tsw_calls) :
                  tsw_calls[k].record = i => tsw_calls[k].outcome # "error"
           /\ im_refs[i].status # "row raised")
          => /\ im_refs[i].status = "done"
             /\ im_refs[i].total = im_refs[i].rows
             /\ Len(SubmittedFor(i)) = im_refs[i].rows

\* The first batch of a long document is rejected, and two more calls follow.
C9_Witness ==
    /\ LastEnded
    /\ im_refs[Len(im_refs)].status = "done"
    /\ Len(CallsOf(Len(im_event))) = 3
    /\ CallsOf(Len(im_event))[1].outcome = "rejected"
    /\ im_refs[Len(im_refs)].total > 2 * MAX_RECORDS

\* C10: a write call that fails is the last call of its record, the record
\* ends there without a total, and the handler does not raise.
C10_TransportFailureEndsRecord ==
    \A k \in 1..Len(tsw_calls) :
        tsw_calls[k].outcome = "error" =>
            /\ \A j \in (k + 1)..Len(tsw_calls) : tsw_calls[j].record > tsw_calls[k].record
            /\ Len(im_refs) >= tsw_calls[k].record
            /\ im_refs[tsw_calls[k].record].status = "write failed"
            /\ im_pc \in {"record", "rows", "returned"}

\* The write call of the first record failed; the second record was read,
\* written, and the handler returned.
C10_Witness ==
    /\ im_pc = "returned"
    /\ Len(im_refs) = 2
    /\ im_refs[1].status = "write failed"
    /\ im_refs[2].status = "done"
    /\ Len(CallsOf(2)) = 1

\* The records taken for which get_s3_object was called.
Fetches == SelectSeq(im_event, LAMBDA record : ~NoReference(record))

\* C11: nothing is fetched and nothing written before the existence check of
\* the destination table has passed; when the table does not exist the
\* handler takes no record, fetches nothing, writes nothing, and ends by
\* raising, whatever the number of records of the event.
C11_CheckBeforeFetchAndWrite ==
    /\ im_pc = "start" => im_event = <<>> /\ Fetches = <<>> /\ tsw_calls = <<>>
    /\ ~table_exists =>
          /\ im_pc \in {"start", "raised"}
          /\ im_event = <<>>
          /\ Fetches = <<>>
          /\ tsw_calls = <<>>
    /\ im_pc = "raised" => ~table_exists

\* The check failed on an event of two records: the handler raised.
C11_Witness ==
    /\ im_pc = "raised"
    /\ ~table_exists
    /\ im_len = 2
    /\ Fetches = <<>>

\* The row has no measure: its ColumnInfo has no measure column, or its
\* measure cells are null.
NoMeasure(row) ==
    \A i \in 1..Len(row.Data) :
        (obj.ColumnInfo[i].Name = "measure_name"
         \/ startswith(obj.ColumnInfo[i].Name, MeasureValuePrefix))
        => row.Data[i].k = "NullValue"

\* No row of the document is malformed, and no write call for it failed.
CleanDocument ==
    /\ \A j \in 1..Len(obj.Rows) : obj.Rows[j] \notin {BadTimeRow(j), EmptyCellRow}
    /\ \A k \in 1..Len(tsw_calls) :
          tsw_calls[k].record = Len(im_event) => tsw_calls[k].outcome # "error"

\* C13: a row without a measure gives one record with MeasureName,
\* MeasureValue and MeasureValueType empty, submitted in its place among the
\* records of the other rows: a document with such rows, no malformed row
\* and no failed write call is processed to its end.
C13_RowWithoutMeasure ==
    (LastEnded /\ im_refs[Len(im_refs)].status # "fetch failed"
               /\ im_refs[Len(im_refs)].status # "no reference" /\ CleanDocument) =>
        LET submitted == SubmittedFor(Len(im_event))
        IN /\ im_refs[Len(im_refs)].status = "done"
           /\ Len(submitted) = Len(obj.Rows)
           /\ \A j \in 1..Len(obj.Rows) :
                 NoMeasure(obj.Rows[j]) =>
                     /\ submitted[j].MeasureName = ""
                     /\ submitted[j].MeasureValue = ""
                     /\ submitted[j].MeasureValueType = ""
                     /\ submitted[j].Time # ""

\* A document of three rows, the second with null measure cells, processed
\* to its end.
C13_Witness ==
    /\ LastEnded
    /\ im_refs[Len(im_refs)].status = "done"
    /\ Len(obj.Rows) = 3
    /\ obj.Rows[2] = NullMeasureRow(2)
    /\ ~NoMeasure(obj.Rows[3])
    /\ Len(SubmittedFor(Len(im_event))) = 3

\* The document of the record taken last was fetched, read to its end and
\* had no malformed row and no failed write call.
CleanRun == LastEnded /\ im_refs[Len(im_refs)].status = "done" /\ CleanDocument

\* The record was made from the row: it carries the dimension of the row's
\* first cell, which tells the rows of a document apart, and nothing else as
\* a dimension.
FromRow(record, row) ==
    /\ Len(record.Dimensions) = 1
    /\ record.Dimensions[1].Name = obj.ColumnInfo[1].Name
    /\ record.Dimensions[1].Value = row.Data[1].v

\* The records submitted for the record taken last are those of the rows of
\* its document, one for each row, in row order.
InRowOrder ==
    LET submitted == SubmittedFor(Len(im_event))
    IN /\ Len(submitted) = Len(obj.Rows)
       /\ \A j \in 1..Len(obj.Rows) : FromRow(submitted[j], obj.Rows[j])

\* A step makes a write call that does not fail.
Flushes ==
    /\ Len(tsw_calls') = Len(tsw_calls) + 1
    /\ tsw_calls'[Len(tsw_calls')].outcome # "error"

\* C21, as claimed: in a run with no reshaping error and no failed write
\* call the batches submitted, put end to end, are the reshaped rows of the
\* document in row order, each row in exactly one call; the batch in memory
\* is empty after every flush, and empty when the next reference starts.
C21_WriteOrderEmptyBuffer ==
    /\ [](CleanRun => InRowOrder)
    /\ [][Flushes => records' = <<>>]_vars
    /\ [][Len(im_event') > Len(im_event) => records = <<>>]_vars

\* C21, as the handler does it: the same order of submission; the batch in
\* memory is empty after every flush of a full batch and once the document
\* of the next reference is fetched, while the last, partial batch stays in
\* memory after its flush; every write call submits the rows of the document
\* in hand that come next after those already submitted, in row order.
C21_WriteOrderBufferReset ==
    /\ [](CleanRun => InRowOrder)
    /\ [][(Flushes /\ Len(tsw_calls'[Len(tsw_calls')].Records) = MAX_RECORDS)
              => records' = <<>>]_vars
    /\ [][(Flushes /\ Len(tsw_calls'[Len(tsw_calls')].Records) < MAX_RECORDS)
              => records' = tsw_calls'[Len(tsw_calls')].Records]_vars
    /\ [][(Len(im_event') > Len(im_event) /\ im_pc' = "rows") => records' = <<>>]_vars
    /\ [][Len(tsw_calls') = Len(tsw_calls) + 1 =>
            LET call == tsw_calls'[Len(tsw_calls')]
                base == Len(SubmittedFor(Len(im_event)))
            IN /\ call.record = Len(im_event)
               /\ base + Len(call.Records) <= Len(obj'.Rows)
               /\ \A k \in 1..Len(call.Records) :
                      /\ Len(call.Records[k].Dimensions) = 1
                      /\ call.Records[k].Dimensions[1].Value = obj'.Rows[base + k].Data[1].v]_vars

\* A clean document of more than 200 rows read to its end: two full batches
\* and the rest were submitted in order, and the rest is still in memory.
C21_Witness ==
    /\ CleanRun
    /\ Len(CallsOf(Len(im_event))) = 3
    /\ InRowOrder
    /\ records # <<>>
    /\ records = CallsOf(Len(im_event))[3].Records

---------------------------------------------------------------------------
(* The row reshaping of the importer as a function: one call on a row and   *)
(* a ColumnInfo drawn from bounded sets.                                    *)

\* Column names: the reserved ones, names one character away from them, a
\* dimension, and a column of array type.
ColumnNames ==
    {"time", "times", "measure_name", "measure_value::double", "measure_valu", "region",
     "tags"}

\* The ScalarType of the Type of a column; the Type of a column of array
\* type holds an ArrayColumnInfo and no ScalarType.
TypeOfColumn(name) ==
    IF name = "time" THEN "TIMESTAMP"
    ELSE IF name = "measure_value::double" THEN "DOUBLE"
    ELSE IF name = "tags" THEN None
    ELSE "VARCHAR"

\* The cells of column idx: a scalar (every value reads as a date too), a
\* null, a value of another kind.
CellsOf(idx) ==
    {ScalarCell("1970-01-01 00:00:0" \o ToString(idx) \o ".250900000"),
     NullCell,
     [k |-> "ArrayValue", v |-> "[]"]}

\* The inputs of one call: n columns and a row of n cells.
ReshapeInputs ==
    UNION {[1..n -> ColumnNames \X CellsOf(1)] : n \in 0..MaxColumns}

ReshapeInit ==
    /\ \E input \in ReshapeInputs :
          /\ rs_columns = [i \in 1..Len(input) |->
                              Column(input[i][1], TypeOfColumn(input[i][1]))]
          /\ rs_row = [Data |-> [i \in 1..Len(input) |->
                              IF input[i][2].k = "ScalarValue"
                              THEN CHOOSE c \in CellsOf(i) : c.k = "ScalarValue"
                              ELSE input[i][2]]]
    /\ rs_pc = "call"
    /\ rs_out = [ok |-> FALSE, record |-> <<>>]
    /\ ExporterIdle /\ ImporterIdle /\ table_exists = TRUE /\ SqsIdle /\ OthersIdle
    /\ s3 = <<>> /\ now = 0

\* line 157-186: record = get_record_template() and the cell loop.
ReshapeCall ==
    /\ rs_pc = "call"
    /\ rs_out' = Reshape(rs_row, rs_columns)
    /\ rs_pc' = "done"
    /\ UNCHANGED <<rs_row, rs_columns>>
    /\ UNCHANGED not_rs_vars

ReshapeNext == ReshapeCall

SpecReshape == ReshapeInit /\ [][ReshapeNext]_vars

\* Every column of the ColumnInfo is of a scalar type.
ScalarTyped == \A i \in 1..Len(rs_columns) : rs_columns[i].Type.ScalarType # None

\* The indices of the cells that are present scalars.
ScalarIdx == {i \in 1..Len(rs_row.Data) : rs_row.Data[i].k = "ScalarValue"}

TimeIdx == {i \in ScalarIdx : rs_columns[i].Name = "time"}
MeasureValueIdx ==
    {i \in ScalarIdx :
        /\ rs_columns[i].Name # "time"
        /\ Len(rs_columns[i].Name) >= 13
        /\ SubSeq(rs_columns[i].Name, 1, 13) = "measure_value"}
MeasureNameIdx == {i \in ScalarIdx : rs_columns[i].Name = "measure_name"}
DimensionIdx == ScalarIdx \ (TimeIdx \cup MeasureValueIdx \cup MeasureNameIdx)

Max(S) == CHOOSE x \in S : \A y \in S : y <= x

RECURSIVE Ascending(_)
\* The members of a set of numbers in ascending order.
Ascending(S) ==
    IF S = {} THEN <<>>
    ELSE LET m == Max(S) IN Append(Ascending(S \ {m}), m)

\* C7: the record of a row has its Time from the scalar cell of the column
\* named 'time', its MeasureValue and MeasureValueType from the scalar cell
\* and type of a column whose name begins with 'measure_value', its
\* MeasureName from the scalar cell of the column named 'measure_name', one
\* dimension, in column order, for every other column with a scalar cell,
\* and the template's value in every field that no cell sets.
C7_ReshapingRule ==
    (rs_pc = "done" /\ ScalarTyped) =>
        /\ rs_out.ok
        /\ rs_out.record.TimeUnit = "MILLISECONDS"
        /\ rs_out.record.Time =
              IF TimeIdx = {} THEN ""
              ELSE ToString(get_timestamp(rs_row.Data[Max(TimeIdx)].v).ms)
        /\ rs_out.record.MeasureValue =
              IF MeasureValueIdx = {} THEN "" ELSE rs_row.Data[Max(MeasureValueIdx)].v
        /\ rs_out.record.MeasureValueType =
              IF MeasureValueIdx = {} THEN ""
              ELSE rs_columns[Max(MeasureValueIdx)].Type.ScalarType
        /\ rs_out.record.MeasureName =
              IF MeasureNameIdx = {} THEN "" ELSE rs_row.Data[Max(MeasureNameIdx)].v
        /\ rs_out.record.Dimensions =
              LET idx == Ascending(DimensionIdx)
              IN [j \in 1..Len(idx) |->
                     [Name |-> rs_columns[idx[j]].Name,
                      Value |-> rs_row.Data[idx[j]].v,
                      DimensionValueType |-> rs_columns[idx[j]].Type.ScalarType]]

\* A row with a dimension, a measure value and a time, reshaped.
C7_Witness ==
    /\ rs_pc = "done"
    /\ Len(rs_columns) = 3
    /\ rs_columns[1].Name = "region"
    /\ rs_columns[2].Name = "measure_value::double"
    /\ rs_columns[3].Name = "time"
    /\ ScalarIdx = {1, 2, 3}
    /\ rs_out.record.MeasureValue = rs_row.Data[2].v
    /\ rs_out.record.Time = "3250"

\* The indices of the cells of the row that are not null, in order.
NotNull == SelectSeq([i \in 1..Len(rs_row.Data) |-> i],
                     LAMBDA i : rs_row.Data[i].k # "NullValue")

\* C12: a null cell contributes nothing to the record and raises no error,
\* whatever the name and the declared type of its column: the call on the
\* row gives what the call on the row without its null cells (and without
\* their columns) gives.
C12_NullCellsContributeNothing ==
    rs_pc = "done" =>
        rs_out = Reshape([Data |-> [j \in 1..Len(NotNull) |-> rs_row.Data[NotNull[j]]]],
                         [j \in 1..Len(NotNull) |-> rs_columns[NotNull[j]]])

---------------------------------------------------------------------------
(* The round trip: the exporter dumps one table, the keys of the documents  *)
(* it stored are published one per message, and the importer loads them.    *)

\* The keys the exporter stored, in the order of their numbers.
StoredKeys ==
    SelectSeq([k \in 1..file_nb |-> ObjName(OBJ_PFX, k)], LAMBDA key : key \in DOMAIN s3)

\* get_s3_object(bucket, key): the parsed document, [ok |-> FALSE] when
\* get_object or json.loads raises.
get_s3_object(bucket, key, get_ok) ==
    IF get_ok /\ key \in DOMAIN bucket
    THEN LET doc == json_loads(bucket[key])
         IN IF doc.ok THEN doc ELSE [ok |-> FALSE, v |-> NoDoc]
    ELSE [ok |-> FALSE, v |-> NoDoc]

\* The exporter is given one message.
RoundTripInit ==
    /\ ExporterStart
    /\ ex_len = 1
    /\ ImporterIdle
    /\ table_exists \in BOOLEAN
    /\ ReshapeIdle
    /\ SqsIdle
    /\ OthersIdle

\* The pages of one table: every page has the ColumnInfo of the table.
RoundTripPages ==
    Pages(IF ex_pages = <<>> THEN ColumnInfos ELSE {ex_pages[1].ColumnInfo},
          RowsIn(ex_pages))

RoundTripPage == \E page \in RoundTripPages : ExporterPageStep(page, TRUE)
RoundTripPageStoreFails == \E page \in RoundTripPages : ExporterPageStep(page, FALSE)

\* One message per stored key reaches the importer in one event.
RoundTripPublish ==
    /\ ex_pc = "returned"
    /\ im_pc = "idle"
    /\ im_pc' = "start"
    /\ im_len' = Len(StoredKeys)
    /\ UNCHANGED <<im_event, obj, ridx, records, rows_count, im_refs, tsw_calls, im_read>>
    /\ UNCHANGED not_im_vars

RoundTripRecord ==
    \E get_ok \in BOOLEAN :
        LET key == StoredKeys[Len(im_event) + 1]
        IN /\ Len(im_event) < im_len
           /\ ImporterRecordStep([bucket |-> "bucket", key |-> key],
                                 get_s3_object(s3, key, get_ok))

\* The row loop on the rows of the fetched document.
RoundTripRow ==
    /\ ridx < Len(obj.Rows)
    /\ UNCHANGED obj
    /\ \E outcome \in WriteOutcomes : ImporterRowStep(obj.Rows[ridx + 1], outcome)

RoundTripEnd ==
    /\ ridx = Len(obj.Rows)
    /\ \E outcome \in WriteOutcomes : ImporterRowsDone(outcome)

RoundTripNext ==
    \/ ExporterRecord
    \/ RoundTripPage
    \/ RoundTripPageStoreFails
    \/ ExporterPageFails
    \/ ExporterEnd
    \/ ExporterEndStoreFails
    \/ ExporterReturn
    \/ RoundTripPublish
    \/ ImporterStart
    \/ ImporterTableMissing
    \/ RoundTripRecord
    \/ RoundTripRow
    \/ RoundTripEnd
    \/ ImporterReturn

SpecRoundTrip == RoundTripInit /\ [][RoundTripNext]_vars

\* The rows of the source table the exporter read, and its columns.
SourceRows == Concat([i \in 1..Len(ex_pages) |-> ex_pages[i].Rows])
SourceColumns == IF ex_pages = <<>> THEN <<>> ELSE ex_pages[1].ColumnInfo

\* The write records the importer submitted, in order.
WriteRecords == Concat([c \in 1..Len(tsw_calls) |-> tsw_calls[c].Records])

\* The cell of a source row in the column with the given name.
CellNamed(row, name) ==
    row.Data[CHOOSE i \in 1..Len(SourceColumns) : SourceColumns[i].Name = name].v

\* The dimensions of a source row: its columns other than the time and the
\* measure columns.
SourceDimensions(row) ==
    {<<SourceColumns[i].Name, row.Data[i].v>> :
        i \in {j \in 1..Len(SourceColumns) :
                  SourceColumns[j].Name \notin {"time", "measure_name", "measure_value::double"}}}

RecordDimensions(record) ==
    {<<record.Dimensions[d].Name, record.Dimensions[d].Value>> :
        d \in 1..Len(record.Dimensions)}

\* Both handlers ran to their end and no call of theirs failed.
RoundTripDone ==
    /\ ex_pc = "returned"
    /\ im_pc = "returned"
    /\ \A i \in 1..Len(im_refs) : im_refs[i].status = "done"

\* C8: the exporter run on a table of non-null scalar cells and the importer
\* run on every document it stored, no call failing, the write records are
\* as many as the source rows and the j-th has the measure name, the measure
\* value and the set of dimensions of the j-th source row, whatever
\* BLOCKSIZE.
C8_RoundTrip ==
    RoundTripDone =>
        /\ Len(WriteRecords) = Len(SourceRows)
        /\ \A j \in 1..Len(SourceRows) :
              /\ WriteRecords[j].MeasureName = CellNamed(SourceRows[j], "measure_name")
              /\ WriteRecords[j].MeasureValue =
                    CellNamed(SourceRows[j], "measure_value::double")
              /\ RecordDimensions(WriteRecords[j]) = SourceDimensions(SourceRows[j])

\* A table of three rows went through two documents.
C8_Witness ==
    /\ RoundTripDone
    /\ BLOCKSIZE = 2
    /\ Len(SourceRows) = 3
    /\ Len(im_refs) = 2
    /\ Len(WriteRecords) = 3

---------------------------------------------------------------------------
(* The SQS-to-S3 handlers: lambda_dump_SQS_to_S3.py and                     *)
(* lambda_write_to_S3_from_SQS.py                                           *)

MessageIds == {"m1", "m2"}

NoEpoch == 0 - 1

\* The payloads of the messages: what an IoT device publishes, and an empty
\* dictionary.
FullPayload ==
    [timestamp |-> "1970-01-02T00:00:00+0000", gateway |-> "gw", deviceName |-> "dev",
     epoch_ms |-> 86400000, values |-> "[1]"]
EmptyPayload ==
    [timestamp |-> None, gateway |-> None, deviceName |-> None,
     epoch_ms |-> NoEpoch, values |-> None]

FullMessage ==
    "{'timestamp': '1970-01-02T00:00:00+0000', 'gateway': 'gw', 'deviceName': 'dev', "
    \o "'epoch_ms': 86400000, 'values': [1]}"

\* The body SNS gives to SQS for a message (the quotes of the message are
\* written ' in place of their escaped form).
SnsBody(msg) == "{\"Message\": \"" \o msg \o "\"}"

\* record.get('body') of the records of a batch: no body, no JSON, no
\* Message, a Message that is no JSON, an empty payload, a full payload.
SqsBodies ==
    {None, "not json", "{}", SnsBody("not json"), SnsBody("{}"), SnsBody(FullMessage)}

\* body = json.loads(body_str); msg = body.get('Message')
json_loads_sns(body_str) ==
    IF body_str = "{}" THEN [ok |-> TRUE, Message |-> None]
    ELSE IF startswith(body_str, "{\"Message\": \"") /\ endswith(body_str, "\"}")
    THEN [ok |-> TRUE, Message |-> SubSeq(body_str, 14, Len(body_str) - 2)]
    ELSE [ok |-> FALSE, Message |-> None]

\* payload = json.loads(msg)
json_loads_message(msg) ==
    IF msg = FullMessage THEN [ok |-> TRUE, v |-> FullPayload]
    ELSE IF msg = "{}" THEN [ok |-> TRUE, v |-> EmptyPayload]
    ELSE [ok |-> FALSE, v |-> EmptyPayload]

\* json.dumps(payload)
json_dumps_message(payload) == IF payload = FullPayload THEN FullMessage ELSE "{}"

\* dt.datetime.strptime(timestring, "%Y-%m-%dT%H:%M:%S%z")
strptime(timestring) ==
    IF /\ Len(timestring) = 24
       /\ AllDigits(SubSeq(timestring, 1, 4))
       /\ SubSeq(timestring, 5, 5) = "-"
       /\ AllDigits(SubSeq(timestring, 6, 7))
       /\ SubSeq(timestring, 8, 8) = "-"
       /\ AllDigits(SubSeq(timestring, 9, 10))
       /\ SubSeq(timestring, 11, 11) = "T"
    THEN [ok |-> TRUE, year |-> int(SubSeq(timestring, 1, 4)),
          month |-> int(SubSeq(timestring, 6, 7)), day |-> int(SubSeq(timestring, 9, 10))]
    ELSE [ok |-> FALSE, year |-> 0, month |-> 0, day |-> 0]

\* dt.datetime.fromtimestamp(epoch / 1000, dt.timezone.utc), for an epoch of
\* January 1970.
fromtimestamp(epoch) ==
    [ok |-> TRUE, year |-> 1970, month |-> 1, day |-> 1 + (epoch \div 86400000)]

\* "{:02d}/{:02d}/{:02d}/{}/{}/{}.json".format(...)
WriteKey(tstamp, thing, device, epoch) ==
    Pad2(tstamp.year) \o "/" \o Pad2(tstamp.month) \o "/" \o Pad2(tstamp.day) \o "/"
    \o thing \o "/" \o device \o "/" \o ToString(epoch) \o ".json"

NoKey == [ok |-> FALSE, key |-> None]

\* lambda_write_to_S3_from_SQS.py line 90-118: the key of the object, or that
\* an exception is raised; t is the clock.
KeyOfWrite(payload, t) ==
    IF inspect
    THEN IF \/ payload.timestamp = None
            \/ payload.gateway = None
            \/ payload.deviceName = None
            \/ payload.epoch_ms \in {NoEpoch, 0}
            \/ payload.values = None
            \/ ~strptime(payload.timestamp).ok
         THEN NoKey
         ELSE [ok |-> TRUE,
               key |-> WriteKey(strptime(payload.timestamp), payload.gateway,
                                payload.deviceName, payload.epoch_ms)]
    ELSE LET epoch == IF payload.epoch_ms = NoEpoch THEN 1000 * t ELSE payload.epoch_ms
             thing == IF payload.gateway = None THEN "unknown_gateway" ELSE payload.gateway
             device == IF payload.deviceName = None THEN "unknown_device"
                       ELSE payload.deviceName
         IN [ok |-> TRUE, key |-> WriteKey(fromtimestamp(epoch), thing, device, epoch)]

\* lambda_dump_SQS_to_S3.py line 102: '{}.json'.format(time.time_ns())
KeyOfDump(t) == [ok |-> TRUE, key |-> ToString(t) \o ".json"]

\* The try block up to put_object: the key and the payload of the object,
\* or that an exception is raised.
Prepared(body_str, t) ==
    IF body_str = None THEN [ok |-> FALSE, key |-> None, payload |-> EmptyPayload]
    ELSE LET body == json_loads_sns(body_str)
             payload == json_loads_message(body.Message)
             key == IF sq_handler = "dump" THEN KeyOfDump(t) ELSE KeyOfWrite(payload.v, t)
         IN IF body.ok /\ body.Message # None /\ payload.ok /\ key.ok
            THEN [ok |-> TRUE, key |-> key.key, payload |-> payload.v]
            ELSE [ok |-> FALSE, key |-> None, payload |-> EmptyPayload]

\* The handler reads the clock on its way to put_object.
ReadsClock(body_str) ==
    /\ Prepared(body_str, now).ok
    /\ \/ sq_handler = "dump"
       \/ ~inspect /\ Prepared(body_str, now).payload.epoch_ms = NoEpoch

\* Mutant: every occurrence of x is removed.
remove_All(list, x) == SelectSeq(list, LAMBDA y : y # x)

RECURSIVE remove(_, _)
\* list.remove(x): the list without the first occurrence of x
remove(list, x) ==
    IF list = <<>> THEN <<>>
    ELSE IF Head(list) = x THEN Tail(list)
    ELSE <<Head(list)>> \o remove(Tail(list), x)

\* The settings of the two handlers.
SqsSettings == {<<"dump", FALSE>>, <<"write", FALSE>>, <<"write", TRUE>>}

SqsToS3Init ==
    /\ \E setting \in SqsSettings : sq_handler = setting[1] /\ inspect = setting[2]
    /\ sq_ids \in SeqUpTo(MessageIds, MaxBatch)
    /\ sq_bodies = <<>>
    /\ sq_pc = "start"
    /\ message_ids = <<>>
    /\ sq_stored = <<>>
    /\ sq_r = <<>>
    /\ ExporterIdle /\ ImporterIdle /\ table_exists = TRUE /\ ReshapeIdle /\ OthersIdle
    /\ s3 = <<>> /\ now = 0

\* dump line 72-79, write line 65-75: the metric is sent (write handler) and
\* the list of the message IDs built.
SqsToS3Start ==
    /\ sq_pc = "start"
    /\ message_ids' = sq_ids
    /\ sq_pc' = "loop"
    /\ UNCHANGED <<sq_handler, inspect, sq_ids, sq_bodies, sq_stored, sq_r>>
    /\ UNCHANGED <<not_sq_vars, env_vars>>

\* write line 70: cw.put_metric_data raises, outside of any try.
SqsToS3MetricFails ==
    /\ sq_pc = "start"
    /\ sq_handler = "write"
    /\ sq_pc' = "raised"
    /\ UNCHANGED <<sq_handler, inspect, sq_ids, sq_bodies, message_ids, sq_stored, sq_r>>
    /\ UNCHANGED <<not_sq_vars, env_vars>>

\* dump line 81-115, write line 77-130: one iteration of the loop on the
\* records; put_ok tells whether s3.put_object succeeds, t is the clock.
SqsToS3RecordStep(body_str, put_ok, t) ==
    /\ sq_pc = "loop"
    /\ Len(sq_bodies) < Len(sq_ids)
    /\ sq_bodies' = Append(sq_bodies, body_str)
    /\ now' = t
    /\ LET messageId == sq_ids[Len(sq_bodies) + 1]
           object == Prepared(body_str, t)
       IN IF object.ok /\ put_ok
          THEN /\ s3' = put_object(s3, object.key, json_dumps_message(object.payload))
               /\ message_ids' = remove(message_ids, messageId)
               /\ sq_stored' = Append(sq_stored, TRUE)
          ELSE \* the exception is printed
               /\ sq_stored' = Append(sq_stored, FALSE)
               /\ UNCHANGED <<s3, message_ids>>
    /\ UNCHANGED <<sq_handler, inspect, sq_ids, sq_pc, sq_r>>
    /\ UNCHANGED not_sq_vars

\* The clock when the iteration reads it.
ClockOf(body_str) == IF ReadsClock(body_str) THEN {c \in ClockValues : c >= now} ELSE {now}

SqsToS3Record ==
    \E body_str \in SqsBodies : \E t \in ClockOf(body_str) :
        SqsToS3RecordStep(body_str, TRUE, t)

SqsToS3RecordStoreFails ==
    \E body_str \in SqsBodies : \E t \in ClockOf(body_str) :
        /\ Prepared(body_str, t).ok
        /\ SqsToS3RecordStep(body_str, FALSE, t)

\* dump line 117-119, write line 132-134
SqsToS3Return ==
    /\ sq_pc = "loop"
    /\ Len(sq_bodies) = Len(sq_ids)
    /\ sq_r' = message_ids
    /\ sq_pc' = "returned"
    /\ UNCHANGED <<sq_handler, inspect, sq_ids, sq_bodies, message_ids, sq_stored>>
    /\ UNCHANGED <<not_sq_vars, env_vars>>

SqsToS3Next ==
    \/ SqsToS3Start
    \/ SqsToS3MetricFails
    \/ SqsToS3Record
    \/ SqsToS3RecordStoreFails
    \/ SqsToS3Return

SpecSqsToS3 == SqsToS3Init /\ [][SqsToS3Next]_vars

\* The records of the batch that were not stored, in batch order, and their
\* message identifiers.
NotStored == SelectSeq([i \in 1..Len(sq_ids) |-> i], LAMBDA i : ~sq_stored[i])
NotStoredIds == [j \in 1..Len(NotStored) |-> sq_ids[NotStored[j]]]

Count(list, x) == Len(SelectSeq(list, LAMBDA y : y = x))

SameMultiset(a, b) == \A x \in MessageIds : Count(a, x) = Count(b, x)

DistinctIds == \A i, j \in 1..Len(sq_ids) : sq_ids[i] = sq_ids[j] => i = j

\* C5 as stated: the list returned holds the message identifiers of the
\* records that were not stored, in batch order, and no identifier of a
\* record that was stored.
C5_FailuresInBatchOrder ==
    sq_pc = "returned" =>
        /\ sq_r = NotStoredIds
        /\ \A i \in 1..Len(sq_ids) :
              sq_stored[i] => \A j \in 1..Len(sq_r) : sq_r[j] # sq_ids[i]

\* C5: the list returned holds, as a multiset, the message identifiers of
\* the records that were not stored; when the message identifiers of the
\* batch are pairwise distinct it holds them in batch order and holds no
\* identifier of a record that was stored.
C5_FailuresAsMultiset ==
    sq_pc = "returned" =>
        /\ SameMultiset(sq_r, NotStoredIds)
        /\ DistinctIds =>
              /\ sq_r = NotStoredIds
              /\ \A i \in 1..Len(sq_ids) :
                    sq_stored[i] => \A j \in 1..Len(sq_r) : sq_r[j] # sq_ids[i]

\* A batch of three records, the first and the second not stored.
C5_Witness ==
    /\ sq_pc = "returned"
    /\ sq_ids = <<"m1", "m2", "m1">>
    /\ sq_stored = <<FALSE, FALSE, TRUE>>
    /\ sq_r = <<"m2", "m1">>

---------------------------------------------------------------------------
(* More properties of the exporter *)

\* The body of the record taken last, parsed.
LastBody == json_loads_body(BodyOf(ex_event[Len(ex_event)]))

\* C14: the day filter is optional: the handler does not raise on a message
\* that carries no filter, and the query of a run orders by time ascending
\* and is restricted to the day of the filter when there is one.
C14_FilterOptional ==
    /\ ~ /\ ex_event # <<>>
         /\ LastBody.ok
         /\ LastBody.filter = None
         /\ ex_pc = "raised"
    /\ ex_pc = "pages" =>
          /\ endswith(QRY(LastBody.filter), " ORDER BY time ASC")
          /\ LastBody.filter # None =>
                QRY(LastBody.filter) =
                    "SELECT * FROM \"db\".\"tb\" WHERE date_trunc('day', time) = '"
                    \o LastBody.filter \o "' ORDER BY time ASC"

\* C15: a finished run all of whose pages are empty has written no document.
C15_EmptyResultNoDocument ==
    (RunComplete /\ RowsOfPages(ex_pages, 1, Len(ex_pages)) = <<>>) => ex_saved = <<>>

\* C18: the k-th document of a run has the key <OBJ_PFX>.<k in 8 digits>.json,
\* OBJ_PFX ending in .dump and being the same for all; the keys of the run
\* differ from one another.
C18_ChunkNumbersAndKeys ==
    /\ \A k \in 1..Len(ex_saved) :
          LET key == ex_saved[k].Key
              number == SubSeq(key, Len(OBJ_PFX) + 2, Len(key) - 5)
          IN /\ startswith(key, OBJ_PFX \o ".")
             /\ endswith(OBJ_PFX, ".dump")
             /\ endswith(key, ".json")
             /\ Len(number) = 8
             /\ AllDigits(number)
             /\ int(number) = k
             /\ key \in DOMAIN s3
    /\ \A k, l \in 1..Len(ex_saved) : ex_saved[k].Key = ex_saved[l].Key => k = l
    /\ Len(ex_saved) <= file_nb

\* A run that wrote three documents.
C18_Witness ==
    /\ RunComplete
    /\ Len(ex_saved) = 3
    /\ file_nb = 3

\* A store call of the run has failed.
StoreFailed == file_nb > Len(ex_saved)

\* C20: a failed fetch or store ends the invocation by raising: no page is
\* requested and no document written after it, for this record or a later
\* one; the documents written before stay, and the store holds the first
\* chunks of the run and not the chunk whose store failed.
C20_MidQueryFailureRaises ==
    /\ [](StoreFailed => ex_pc = "raised")
    /\ [](ex_pc = "raised" =>
            /\ \A k \in 1..Len(ex_saved) :
                  /\ ex_saved[k].Key \in DOMAIN s3
                  /\ s3[ex_saved[k].Key] = json_dumps(ex_saved[k].Payload)
            /\ ChunkRowsExact
            /\ Len(ex_event) = 1 =>
                  DOMAIN s3 = {ObjName(OBJ_PFX, k) : k \in 1..Len(ex_saved)})
    /\ [][ex_pc = "raised" => UNCHANGED <<ex_pc, s3, ex_saved, ex_fetched, ex_event>>]_vars

\* The store of the second chunk failed, on the first of two records.
C20_Witness ==
    /\ ex_pc = "raised"
    /\ StoreFailed
    /\ Len(ex_saved) = 1
    /\ ex_len = 2
    /\ Len(ex_event) = 1

---------------------------------------------------------------------------
(* The day-filter producer: lambda_write_date_filters_to_SQS.py (and the    *)
(* same handler in write_date_filters_to_SQS.py)                            *)

\* The values of START_DAY and END_DAY: days around the end of a year and
\* the end of February of a leap year.
ProducerDays ==
    {"2023-12-30", "2023-12-31", "2024-01-01", "2024-02-28", "2024-02-29", "2024-03-01"}

DaysInMonth(year, month) ==
    IF month = 2
    THEN IF (year % 4 = 0 /\ year % 100 # 0) \/ year % 400 = 0 THEN 29 ELSE 28
    ELSE IF month \in {4, 6, 9, 11} THEN 30 ELSE 31

\* dt.datetime.strptime(day, "%Y-%m-%d"); [ok |-> FALSE] when it raises
strptime_day(day) ==
    IF /\ day # None
       /\ Len(day) = 10
       /\ AllDigits(SubSeq(day, 1, 4)) /\ SubSeq(day, 5, 5) = "-"
       /\ AllDigits(SubSeq(day, 6, 7)) /\ SubSeq(day, 8, 8) = "-"
       /\ AllDigits(SubSeq(day, 9, 10))
       /\ int(SubSeq(day, 6, 7)) \in 1..12
       /\ int(SubSeq(day, 9, 10)) \in 1..DaysInMonth(int(SubSeq(day, 1, 4)),
                                                     int(SubSeq(day, 6, 7)))
    THEN [ok |-> TRUE,
          v |-> [year |-> int(SubSeq(day, 1, 4)), month |-> int(SubSeq(day, 6, 7)),
                 day |-> int(SubSeq(day, 9, 10))]]
    ELSE [ok |-> FALSE, v |-> NoDate]

\* date.strftime("%Y-%m-%d"), for a year of four digits
strftime_day(date) ==
    ToString(date.year) \o "-" \o Pad2(date.month) \o "-" \o Pad2(date.day)

\* Mutant: the day after the last of a month is the first of the same month.
timedelta_SameMonth(date) ==
    IF date.day < DaysInMonth(date.year, date.month)
    THEN [date EXCEPT !.day = @ + 1]
    ELSE [date EXCEPT !.day = 1]

\* date + dt.timedelta(days=1)
timedelta(date) ==
    IF date.day < DaysInMonth(date.year, date.month)
    THEN [date EXCEPT !.day = @ + 1]
    ELSE IF date.month < 12
    THEN [date EXCEPT !.month = @ + 1, !.day = 1]
    ELSE [year |-> date.year + 1, month |-> 1, day |-> 1]

\* a <= b, for dates
DateLE(a, b) ==
    \/ a.year < b.year
    \/ a.year = b.year /\ a.month < b.month
    \/ a.year = b.year /\ a.month = b.month /\ a.day <= b.day

ProducerInit ==
    /\ START_DAY \in ProducerDays
    /\ END_DAY \in ProducerDays \cup {None}
    /\ pr_pc = "start"
    /\ current = NoDate
    /\ pr_sent = <<>>
    /\ ExporterIdle /\ ImporterIdle /\ table_exists = TRUE /\ ReshapeIdle /\ SqsIdle
    /\ FanoutIdle /\ IotIdle /\ ParallelIdle
    /\ s3 = <<>> /\ now = 0

\* line 69-70: the two days are parsed; a day that does not parse raises,
\* which the handler prints and raises again.
ProducerStart ==
    /\ pr_pc = "start"
    /\ IF strptime_day(START_DAY).ok /\ strptime_day(END_DAY).ok
       THEN current' = strptime_day(START_DAY).v /\ pr_pc' = "loop"
       ELSE pr_pc' = "raised" /\ UNCHANGED current
    /\ UNCHANGED <<START_DAY, END_DAY, pr_sent>>
    /\ UNCHANGED not_pr_vars

\* line 72-80: one iteration of the while loop, the message being sent.
ProducerSend ==
    /\ pr_pc = "loop"
    /\ DateLE(current, strptime_day(END_DAY).v)
    /\ pr_sent' = Append(pr_sent, FilterBody(strftime_day(current)))
    /\ current' = timedelta(current)
    /\ UNCHANGED <<START_DAY, END_DAY, pr_pc>>
    /\ UNCHANGED not_pr_vars

\* line 74, 81-83: sqs.send_message raises; the handler prints and raises.
ProducerSendFails ==
    /\ pr_pc = "loop"
    /\ DateLE(current, strptime_day(END_DAY).v)
    /\ pr_pc' = "raised"
    /\ UNCHANGED <<START_DAY, END_DAY, current, pr_sent>>
    /\ UNCHANGED not_pr_vars

\* line 72, 84-85: the condition of the loop is false: "Finished without error"
ProducerFinish ==
    /\ pr_pc = "loop"
    /\ ~DateLE(current, strptime_day(END_DAY).v)
    /\ pr_pc' = "done"
    /\ UNCHANGED <<START_DAY, END_DAY, current, pr_sent>>
    /\ UNCHANGED not_pr_vars

ProducerNext == ProducerStart \/ ProducerSend \/ ProducerSendFails \/ ProducerFinish

\* The handler runs on: each of its steps is taken when it can be.
SpecProducer == ProducerInit /\ [][ProducerNext]_vars /\ WF_vars(ProducerNext)

\* The number of the day in the days from 2023-01-01 on, for a day of 2023
\* or 2024.
DayNumber(day) ==
    LET y == int(SubSeq(day, 1, 4))
        m == int(SubSeq(day, 6, 7))
        d == int(SubSeq(day, 9, 10))
    IN 365 * (y - 2023) + DaysBeforeMonth[m] + (IF y = 2024 /\ m > 2 THEN 1 ELSE 0) + d

\* The day of a message body {"filter": "YYYY-MM-DD"}.
DayOfBody(body) == SubSeq(body, 13, 22)

\* C16: the messages sent are one per day from START_DAY on, in ascending
\* order and without a gap, none after END_DAY, each with the body
\* {"filter": "YYYY-MM-DD"}; a handler that finishes has sent
\* (END_DAY - START_DAY) + 1 messages, none when START_DAY is after END_DAY;
\* and the handler ends.
C16_OneMessagePerDay ==
    /\ [](\A i \in 1..Len(pr_sent) :
            /\ Len(pr_sent[i]) = 24
            /\ pr_sent[i] = "{\"filter\": \"" \o DayOfBody(pr_sent[i]) \o "\"}"
            /\ strptime_day(DayOfBody(pr_sent[i])).ok
            /\ DayNumber(DayOfBody(pr_sent[i])) = DayNumber(START_DAY) + i - 1
            /\ DayNumber(DayOfBody(pr_sent[i])) <= DayNumber(END_DAY))
    /\ [](pr_pc = "done" =>
            Len(pr_sent) = IF DayNumber(START_DAY) <= DayNumber(END_DAY)
                           THEN DayNumber(END_DAY) - DayNumber(START_DAY) + 1
                           ELSE 0)
    /\ <>(pr_pc \in {"done", "raised"})

\* The days from 2023-12-30 to 2024-03-01 were sent: 63 messages.
C16_Witness ==
    /\ pr_pc = "done"
    /\ START_DAY = "2023-12-30"
    /\ END_DAY = "2024-03-01"
    /\ Len(pr_sent) = 63
    /\ pr_sent[62] = "{\"filter\": \"2024-02-29\"}"

---------------------------------------------------------------------------
(* The fan-out handler: lambda_publish_timestream_dump_files_list_to_SQS.py *)

\* The BUCKET setting.
BUCKET == "timestream-dump"

\* s3.list_objects returns at most this many keys in one response; the
\* handler makes one call and reads neither IsTruncated nor a marker.
MaxKeys == 1000

\* Exported documents of the small buckets.
MaxObjects == 3

\* A bucket, as list_objects lists it (keys in ascending UTF-8 order): an
\* object that is no JSON document, n exported documents, another object.
BucketObjects(n, bak, txt) ==
    (IF bak THEN << "dump.json.bak" >> ELSE <<>>)
    \o [i \in 1..n |-> ObjName("dump", i)]
    \o (IF txt THEN << "readme.txt" >> ELSE <<>>)

FanoutBuckets ==
    {BucketObjects(n, bak, txt) : n \in 0..MaxObjects, bak \in BOOLEAN, txt \in BOOLEAN}
    \cup {BucketObjects(n, FALSE, FALSE) : n \in {MaxKeys, MaxKeys + 1}}

\* response['Contents'] of s3.list_objects(Bucket=...): the first MaxKeys
\* keys; the response of an empty bucket has no 'Contents' key.
list_objects(objects) ==
    IF objects = <<>> THEN NoContents
    ELSE SubSeq(objects, 1, Min(Len(objects), MaxKeys))

\* line 60-70
get_formatted_sqs_attributes(key, bucket) ==
    [bucket |-> [StringValue |-> bucket, DataType |-> "String"],
     key |-> [StringValue |-> key, DataType |-> "String"]]

FanoutInit ==
    /\ fo_objects \in FanoutBuckets
    /\ fo_pc = "start"
    /\ Contents = NoContents
    /\ fo_i = 0
    /\ fo_sent = <<>>
    /\ ExporterIdle /\ ImporterIdle /\ table_exists = TRUE /\ ReshapeIdle /\ SqsIdle
    /\ ProducerIdle /\ IotIdle /\ ParallelIdle
    /\ s3 = <<>> /\ now = 0

\* line 74-77: the listing; `response['Contents']` raises KeyError when the
\* bucket holds no object, and nothing catches it.
FanoutList ==
    /\ fo_pc = "start"
    /\ Contents' = list_objects(fo_objects)
    /\ fo_pc' = IF Contents' = NoContents THEN "raised" ELSE "loop"
    /\ UNCHANGED <<fo_objects, fo_i, fo_sent>>
    /\ UNCHANGED not_fo_vars

\* line 74: list_objects raises (no such bucket, access denied).
FanoutListFails ==
    /\ fo_pc = "start"
    /\ fo_pc' = "raised"
    /\ UNCHANGED <<fo_objects, Contents, fo_i, fo_sent>>
    /\ UNCHANGED not_fo_vars

\* line 77-80: a key that does not end with '.json' is skipped.
FanoutSkip ==
    /\ fo_pc = "loop"
    /\ fo_i < Len(Contents)
    /\ ~endswith(Contents[fo_i + 1], ".json")
    /\ fo_i' = fo_i + 1
    /\ UNCHANGED <<fo_objects, fo_pc, Contents, fo_sent>>
    /\ UNCHANGED not_fo_vars

\* line 77-88: one message for a key that ends with '.json'.
FanoutSend ==
    /\ fo_pc = "loop"
    /\ fo_i < Len(Contents)
    /\ endswith(Contents[fo_i + 1], ".json")
    /\ fo_sent' = Append(fo_sent, get_formatted_sqs_attributes(Contents[fo_i + 1], BUCKET))
    /\ fo_i' = fo_i + 1
    /\ UNCHANGED <<fo_objects, fo_pc, Contents>>
    /\ UNCHANGED not_fo_vars

\* line 82-87: sqs.send_message raises; nothing catches it.
FanoutSendFails ==
    /\ fo_pc = "loop"
    /\ fo_i < Len(Contents)
    /\ endswith(Contents[fo_i + 1], ".json")
    /\ fo_pc' = "raised"
    /\ UNCHANGED <<fo_objects, Contents, fo_i, fo_sent>>
    /\ UNCHANGED not_fo_vars

\* line 77: the loop is over, the handler returns.
FanoutReturn ==
    /\ fo_pc = "loop"
    /\ fo_i = Len(Contents)
    /\ fo_pc' = "returned"
    /\ UNCHANGED <<fo_objects, Contents, fo_i, fo_sent>>
    /\ UNCHANGED not_fo_vars

FanoutNext ==
    \/ FanoutList
    \/ FanoutListFails
    \/ FanoutSkip
    \/ FanoutSend
    \/ FanoutSendFails
    \/ FanoutReturn

SpecFanout == FanoutInit /\ [][FanoutNext]_vars

\* The references the queue should hold: one for each '.json' key of the bucket.
JsonKeys == {fo_objects[i] : i \in {j \in 1..Len(fo_objects) : endswith(fo_objects[j], ".json")}}
References == {get_formatted_sqs_attributes(k, BUCKET) : k \in JsonKeys}

\* C17: when the fan-out handler has returned, the queue holds exactly one
\* message for each object of the bucket whose key ends with '.json', with
\* the bucket name and the key as attributes, and no other message: no
\* document of the bucket is left without a reference.
C17_FanoutComplete ==
    fo_pc = "returned" =>
        /\ {fo_sent[i] : i \in 1..Len(fo_sent)} = References
        /\ Len(fo_sent) = Cardinality(JsonKeys)

---------------------------------------------------------------------------
(* The IoT-to-SNS handler: lambda_send_iot_payload_to_sns.py                *)

\* Invocations of the handler in one behaviour.
MaxEvents == 2

\* The AWS_LAMBDA_FUNCTION_NAME setting.
MYSELF == "iot-to-sns"

\* line 52-54
DATA_MODEL_VER == {"ekip0001"}
DATA_CONTRACT_VER == "ekip0001"

\* line 67
KEYS_EXPECTED ==
    {"timestamp", "dataObject", "epoch_ms", "site_name", "device_name", "data_model"}

\* A dictionary is the sequence of its items <<key, value>> in insertion
\* order, the value being its JSON text; an event that is no dictionary is
\* the empty list.
Dict(items) == [isdict |-> TRUE, items |-> items]
keys(d) == {d.items[i][1] : i \in 1..Len(d.items)}

\* dict.get(key): the value, None when the key is missing
get(d, key) ==
    IF key \in keys(d)
    THEN LET i == CHOOSE j \in 1..Len(d.items) : d.items[j][1] = key IN d.items[i][2]
    ELSE None

\* dict.pop(key)
pop(d, key) ==
    LET kept == {j \in 1..Len(d.items) : d.items[j][1] # key}
        nth(n) == CHOOSE j \in kept : Cardinality({h \in kept : h < j}) = n - 1
    IN Dict([n \in 1..Cardinality(kept) |-> d.items[nth(n)]])

\* d[key] = value, for a key the dictionary does not hold
setitem(d, key, value) == Dict(Append(d.items, <<key, value>>))

IotItems(model) ==
    << <<"timestamp", Quote("2022-04-15T10:00:00+0000")>>,
       <<"dataObject", "{\"v\": 1}">>,
       <<"epoch_ms", "1650016800000">>,
       <<"site_name", Quote("site")>>,
       <<"device_name", Quote("dev")>>,
       <<"data_model", Quote(model)>> >>

\* The events: a compliant one, one of another data model, one with no
\* data model, one with a key missing, one with a key too many, and one that
\* is no dictionary.
IotEvents ==
    { Dict(IotItems("ekip0001")),
      Dict(IotItems("ekip0002")),
      Dict(SubSeq(IotItems("ekip0001"), 1, 5)),
      Dict(SubSeq(IotItems("ekip0001"), 2, 6)),
      Dict(Append(IotItems("ekip0001"), <<"extra", "1">>)),
      NoEvent }

RECURSIVE Join(_, _)
\* sep.join(strs)
Join(strs, sep) ==
    IF strs = <<>> THEN ""
    ELSE IF Len(strs) = 1 THEN strs[1]
    ELSE strs[1] \o sep \o Join(Tail(strs), sep)

RECURSIVE Escape(_)
\* json.dumps of the characters of a string: a double quote gets a backslash
Escape(str) ==
    IF Len(str) = 0 THEN ""
    ELSE IF Len(str) = 1 THEN (IF str = "\"" THEN "\\\"" ELSE str)
    ELSE Escape(SubSeq(str, 1, Len(str) \div 2))
         \o Escape(SubSeq(str, Len(str) \div 2 + 1, Len(str)))

\* json.dumps(event) / json.dumps(payload)
json_dumps_event(d) ==
    IF ~d.isdict THEN "[]"
    ELSE "{" \o Join([i \in 1..Len(d.items) |->
                        Quote(d.items[i][1]) \o ": " \o d.items[i][2]], ", ") \o "}"

\* json.dumps(msg), msg = {'error': str(e), 'event': json.dumps(event)}
json_dumps_msg(error, event_str) ==
    "{\"error\": \"" \o Escape(error) \o "\", \"event\": \"" \o Escape(event_str) \o "\"}"

\* sorted(keys), printed as a list
SortedKeys ==
    << "dataObject", "data_model", "device_name", "epoch_ms", "extra", "site_name",
       "timestamp" >>
sorted(ks) ==
    LET sel == SelectSeq(SortedKeys, LAMBDA k : k \in ks)
    IN "[" \o Join([i \in 1..Len(sel) |-> "'" \o sel[i] \o "'"], ", ") \o "]"

\* line 75-85: None when the payload complies, else str() of the RuntimeError
validate_payload(payload) ==
    IF ~payload.isdict
    THEN "The payload should be a dictionary but a type '<class 'list'>' was received"
    ELSE IF get(payload, "data_model") \notin {Quote(v) : v \in DATA_MODEL_VER}
    THEN "Unsupported version of the incoming data model: '"
         \o (IF get(payload, "data_model") = None THEN "None"
             ELSE Unquote(get(payload, "data_model"))) \o "'"
    ELSE IF keys(payload) # KEYS_EXPECTED
    THEN "The input payload keys does not comply with the expected keys. Received keys: "
         \o sorted(keys(payload)) \o " / Expected keys: " \o sorted(KEYS_EXPECTED)
    ELSE None

\* line 88-93, after the validation: the dictionary itself is changed
adjust_payload(payload) ==
    setitem(pop(pop(payload, "timestamp"), "data_model"),
            "contract", Quote(DATA_CONTRACT_VER))

\* str() of the exception of a failed sns.publish
PublishError ==
    "An error occurred (InternalError) when calling the Publish operation"

\* line 116: "lambda-{}/{}.json".format(MYSELF, int(time.time() * 1000))
DeadKey(t) == "lambda-" \o MYSELF \o "/" \o ToString(t * 1000) \o ".json"

IotInit ==
    /\ IotIdle
    /\ ExporterIdle /\ ImporterIdle /\ table_exists = TRUE /\ ReshapeIdle /\ SqsIdle
    /\ ProducerIdle /\ FanoutIdle /\ ParallelIdle
    /\ s3 = <<>> /\ now = 0

\* line 96: an invocation begins.
IotReceive ==
    /\ iot_pc \in {"idle", "returned", "raised"}
    /\ iot_runs < MaxEvents
    /\ \E ev \in IotEvents :
        /\ iot_received' = ev
        /\ event' = ev
    /\ iot_pc' = "start"
    /\ iot_e' = None
    /\ iot_runs' = iot_runs + 1
    /\ UNCHANGED <<iot_published, iot_dead, now>>
    /\ UNCHANGED not_iot_vars

\* line 99: adjust_payload(event); the validation raises or the event is
\* changed in place.
IotAdjust ==
    /\ iot_pc = "start"
    /\ LET err == validate_payload(event)
       IN IF err # None
          THEN /\ iot_e' = err
               /\ iot_pc' = "except"
               /\ event' = event
          ELSE /\ event' = adjust_payload(event)
               /\ iot_pc' = "publish"
               /\ iot_e' = iot_e
    /\ UNCHANGED <<iot_received, iot_published, iot_dead, iot_runs, now>>
    /\ UNCHANGED not_iot_vars

\* line 103-107: sns.publish succeeds, the handler returns.
IotPublish ==
    /\ iot_pc = "publish"
    /\ iot_published' = Append(iot_published,
                                [run |-> iot_runs, Message |-> json_dumps_event(event)])
    /\ iot_pc' = "returned"
    /\ UNCHANGED <<iot_received, event, iot_e, iot_dead, iot_runs, now>>
    /\ UNCHANGED not_iot_vars

\* line 103-109: sns.publish raises.
IotPublishFails ==
    /\ iot_pc = "publish"
    /\ iot_e' = PublishError
    /\ iot_pc' = "except"
    /\ UNCHANGED <<iot_received, event, iot_published, iot_dead, iot_runs, now>>
    /\ UNCHANGED not_iot_vars

\* line 109-122: the dead letter is stored.
IotDeadLetter ==
    /\ iot_pc = "except"
    /\ \E t \in {c \in ClockValues : c >= now} :
        /\ now' = t
        /\ iot_dead' = Append(iot_dead,
                              [run |-> iot_runs, Key |-> DeadKey(t),
                               Body |-> json_dumps_msg(iot_e, json_dumps_event(event))])
    /\ iot_pc' = "returned"
    /\ UNCHANGED <<iot_received, event, iot_e, iot_published, iot_runs>>
    /\ UNCHANGED not_iot_vars

\* line 117-121: s3.put_object raises; the except clause has no handler of
\* its own, the invocation fails.
IotDeadLetterFails ==
    /\ iot_pc = "except"
    /\ iot_pc' = "raised"
    /\ UNCHANGED <<iot_received, event, iot_e, iot_published, iot_dead, iot_runs, now>>
    /\ UNCHANGED not_iot_vars

IotNext ==
    \/ IotReceive
    \/ IotAdjust
    \/ IotPublish
    \/ IotPublishFails
    \/ IotDeadLetter
    \/ IotDeadLetterFails

SpecIot == IotInit /\ [][IotNext]_vars

\* The calls of the invocation that runs or has just ended.
PublishedNow == {i \in 1..Len(iot_published) : iot_published[i].run = iot_runs}
DeadLetteredNow == {i \in 1..Len(iot_dead) : iot_dead[i].run = iot_runs}

\* The error the handler catches for the event received, the publication
\* failing when the event complies.
ErrorOf(ev) == IF validate_payload(ev) # None THEN validate_payload(ev) ELSE PublishError

IotEnded == iot_pc \in {"returned", "raised"}

\* C19: when an invocation has ended, the handler has either published the
\* adjusted payload or stored exactly one dead letter that holds the text of
\* the error and the event as it was received, never both and never neither;
\* a payload that fails the validation is never published.
C19_PublishOrDeadLetter ==
    /\ IotEnded =>
        /\ Cardinality(PublishedNow) + Cardinality(DeadLetteredNow) = 1
        /\ \A i \in PublishedNow :
            /\ validate_payload(iot_received) = None
            /\ iot_published[i].Message = json_dumps_event(adjust_payload(iot_received))
        /\ \A i \in DeadLetteredNow :
            iot_dead[i].Body =
                json_dumps_msg(ErrorOf(iot_received), json_dumps_event(iot_received))
    /\ validate_payload(iot_received) # None => PublishedNow = {}

---------------------------------------------------------------------------
(* Two invocations of the exporter, in parallel or one after the other: the *)
(* exporter variables hold the locals of the invocation at its turn, the    *)
(* bucket and the clock are shared, and any step may be followed by a step  *)
(* of the other invocation.                                                 *)

\* Changes of turn in one behaviour, and pages of one invocation.
MaxSwitches == 3
MaxParallelPages == 2

\* The day filters of the two messages: the same day delivered twice, or two
\* days.
ParallelDays == {"2022-01-01", "2022-01-02"}

\* The locals of the invocation at its turn.
Locals ==
    [ex_len |-> ex_len, ex_event |-> ex_event, ex_pc |-> ex_pc, OBJ_PFX |-> OBJ_PFX,
     pg_nb |-> pg_nb, pg_count |-> pg_count, file_nb |-> file_nb, rows |-> rows,
     columns |-> columns, ex_pages |-> ex_pages, ex_saved |-> ex_saved,
     ex_runs |-> ex_runs, ex_fetched |-> ex_fetched]

\* Both invocations are about to begin, each on an event of one record.
ParallelInit ==
    /\ ExporterStart
    /\ ex_len = 1
    /\ ex_other = StartLocals(1)
    /\ ex_id = 1
    /\ ex_switches = 0
    /\ ImporterIdle /\ table_exists = TRUE /\ ReshapeIdle /\ SqsIdle
    /\ ProducerIdle /\ FanoutIdle /\ IotIdle

\* line 97-111, for a message that carries a day filter.
ParallelRecord ==
    \E d \in ParallelDays : ExporterRecordStep([body |-> FilterBody(d)])

\* line 116-131: the query returns its next page, of one row at least.
ParallelPage ==
    /\ ex_fetched < MaxParallelPages
    /\ \E page \in Pages({TableColumns}, RowsIn(ex_pages)) :
        /\ page.Rows # <<>>
        /\ ExporterPageStep(page, TRUE)

\* The other invocation takes its next step: the turn changes.
ParallelSwitch ==
    /\ ex_switches < MaxSwitches
    /\ ex_switches' = ex_switches + 1
    /\ ex_id' = 3 - ex_id
    /\ ex_other' = Locals
    /\ ex_len' = ex_other.ex_len
    /\ ex_event' = ex_other.ex_event
    /\ ex_pc' = ex_other.ex_pc
    /\ OBJ_PFX' = ex_other.OBJ_PFX
    /\ pg_nb' = ex_other.pg_nb
    /\ pg_count' = ex_other.pg_count
    /\ file_nb' = ex_other.file_nb
    /\ rows' = ex_other.rows
    /\ columns' = ex_other.columns
    /\ ex_pages' = ex_other.ex_pages
    /\ ex_saved' = ex_other.ex_saved
    /\ ex_runs' = ex_other.ex_runs
    /\ ex_fetched' = ex_other.ex_fetched
    /\ UNCHANGED <<BLOCKSIZE, s3, now>>
    /\ UNCHANGED <<im_vars, table_exists, rs_vars, sq_vars, pr_vars, fo_vars, iot_vars>>

ParallelNext ==
    \/ ParallelRecord
    \/ ParallelPage
    \/ ExporterEnd
    \/ ExporterReturn
    \/ ParallelSwitch

SpecParallel == ParallelInit /\ [][ParallelNext]_vars

\* The keys an invocation has written to.
KeysOf(locals) == {locals.ex_saved[i].Key : i \in 1..Len(locals.ex_saved)}

\* C22: two invocations of the exporter never write to the same object key,
\* and never work under the same key prefix: no document written by one is
\* overwritten by the other, and no prefix holds documents of both.
C22_NoSharedKey ==
    /\ KeysOf(Locals) \cap KeysOf(ex_other) = {}
    /\ (OBJ_PFX # None /\ ex_other.OBJ_PFX # None) => OBJ_PFX # ex_other.OBJ_PFX

=============================================================================
